---- MODULE Spec2Model ----
(***************************************************************************)
(* Model of the allocator engines of b2b-custom-allocators:                *)
(*   ArenaAllocator      src/3_pooling/arena-vs-pool.cpp                    *)
(*   PoolAllocator<T>    src/3_pooling/arena-vs-pool.cpp (growable pool;    *)
(*                       ProperPoolAllocator in pool-allocator-comparisons  *)
(*                       has the same allocateChunk/allocate/deallocate)    *)
(*   StackAllocator      src/4_stack/basic_stack.cpp                        *)
(*   StackAllocator<T>   src/4_stack/basic_stack_traits.cpp (StackState)    *)
(*   IntrusivePoolAllocator<T>, FixedPoolAllocator<T, MaxObjects>           *)
(*                       src/3_pooling/pool-allocator-comparisons.cpp       *)
(*   SimplePoolAllocator<T, PoolSize>                                      *)
(*                       src/3_pooling/simple-pool-allocator-manual.cpp     *)
(*                                                                         *)
(* Addresses are byte offsets into the backing buffer (memory + offset is  *)
(* written as offset).  size_t is an unsigned word of WordBits bits, all   *)
(* size_t arithmetic is taken modulo 2^WordBits as the hardware does.      *)
(***************************************************************************)
EXTENDS Integers, Sequences, FiniteSets, TLC

VARIABLES
    arena,      \* ArenaAllocator {size, offset}, or NoObject before construction
    stack,      \* basic_stack.cpp StackAllocator instances: id -> {total_size_, current_offset_}
    state,      \* basic_stack_traits.cpp StackState objects: id -> {total_size_, current_offset_, ref_count_}
    last,       \* the most recent call: receiver, arguments, offset before it, result
    granted,    \* history: ranges returned since the receiver's last restore/reset/clear
    held,       \* client side: the marker most recently obtained from get_marker()
    scen,       \* history: progress through the capacity-64 save/restore scenario
    nest,       \* client side: the markers saved in order, and which of them were discarded
    pool,       \* the pool allocator object under study, or NoObject when none exists
    outstanding,\* history: slots handed out by the pool and not yet given back
    validUse,   \* history: every deallocate so far was given a handed-out slot
    plast,      \* the most recent call on the pool: operation, slot passed or returned, outcome
    freed,      \* history: slots given back and not handed out again, oldest first
    heap,       \* storage obtained from the system: how often each piece has been released
    handles     \* the allocator objects of a program that copies them: id -> object

vars == <<arena, stack, state, last, granted, held, scen, nest,
          pool, outstanding, validUse, plast, freed, heap, handles>>
bumpVars == <<arena, stack, state, last, granted, held, scen, nest, handles>>
poolVars == <<pool, outstanding, validUse, plast, freed, heap>>

----------------------------------------------------------------------------
(* Bounds of the model *)

WordBits == 7          \* width of size_t in the model
MaxAllocs == 2         \* successful allocations recorded between two releases
MaxObjectsPerChunk == 2 \* largest objectsPerChunk a pool is constructed with
MaxChunks == 3         \* chunks a pool may grow to
MaxCalls == 5          \* allocate calls, and deallocate calls, made on a pool
MaxMarks == 2          \* markers a client saves on one stack allocator
MaxPoolSize == 3       \* largest MaxObjects / PoolSize of a fixed pool
MaxHandles == 3        \* allocator objects a program creates, copies included

Mod == 2 ^ WordBits
Word == 0 .. Mod - 1

NoObject == [none |-> TRUE]
Nobody == <<"none", 0>>
NoSlot == <<0, 0>>

----------------------------------------------------------------------------
(* size_t arithmetic *)

Add(x, y) == (x + y) % Mod
Sub(x, y) == (x - y + Mod) % Mod
Mul(x, y) == (x * y) % Mod

RECURSIVE BitAndN(_, _, _)
BitAndN(x, y, n) ==
    IF n = 0 THEN 0
    ELSE (x % 2) * (y % 2) + 2 * BitAndN(x \div 2, y \div 2, n - 1)

BitAnd(x, y) == BitAndN(x, y, WordBits)
BitNot(x) == Mod - 1 - x

IsPow2(a) == \E k \in 0 .. WordBits - 1 : a = 2 ^ k

\* (value + alignment - 1) & ~(alignment - 1)
align_up(value, alignment) ==
    BitAnd(Sub(Add(value, alignment), 1), BitNot(Sub(alignment, 1)))

\* the smallest multiple of a that is >= v, over the unbounded integers
RoundUp(v, a) == ((v + a - 1) \div a) * a

----------------------------------------------------------------------------
(* Inputs *)

Capacities == {16, 64}
Bytes == {5, 10, 20, Mod - 5}
Alignments == {0, 1, 3, 4}
Markers == {0, 10, 30, Mod - 1}
\* <<sizeof(T), alignof(T)>> of element types the demos use: char, int, TestObject
Types == {<<1, 1>>, <<4, 4>>, <<16, 8>>}
Counts == {5, 10, 20, Mod - 1}

Call(obj, op, bytes, alignment, marker, before, ok, start) ==
    [obj |-> obj, op |-> op, bytes |-> bytes, alignment |-> alignment,
     marker |-> marker, before |-> before, ok |-> ok, start |-> start]

NoCall == Call(Nobody, "none", 0, 0, 0, 0, FALSE, 0)

\* a call on a pool: ptr is the slot returned by allocate or passed to
\* deallocate, ok tells whether the call took or put back a slot, live whether
\* that slot was handed out when the call was made, grew whether the call
\* created a chunk; allocs and frees count the calls that took and put back a
\* slot so far, peak is the largest number of slots handed out at one time
Max(x, y) == IF x >= y THEN x ELSE y

PoolCall(op, ptr, ok, live, grew) ==
    [op |-> op, ptr |-> ptr, ok |-> ok, live |-> live, grew |-> grew,
     allocs |-> plast.allocs + (IF op = "allocate" /\ ok THEN 1 ELSE 0),
     frees |-> plast.frees + (IF op = "deallocate" /\ ok THEN 1 ELSE 0),
     peak |-> Max(plast.peak, Cardinality(outstanding)
                                + (IF op = "allocate" /\ ok /\ ~live THEN 1 ELSE 0)),
     n |-> 1]

\* a call of an allocator whose allocate and deallocate take a number of objects
PoolCallN(op, ptr, ok, live, n) ==
    [PoolCall(op, ptr, ok, live, FALSE) EXCEPT !.n = n]

NoPoolCall ==
    [op |-> "none", ptr |-> NoSlot, ok |-> FALSE, live |-> FALSE, grew |-> FALSE,
     allocs |-> 0, frees |-> 0, peak |-> 0, n |-> 0]

----------------------------------------------------------------------------
(* ArenaAllocator, arena-vs-pool.cpp *)

TheArena == <<"arena", 0>>

ArenaAllocator(size) == [size |-> size, offset |-> 0]

Arena_allocate(bytes, alignment) ==
    /\ arena # NoObject
    /\ LET aligned_offset == BitAnd(Sub(Add(arena.offset, alignment), 1),
                                    BitNot(Sub(alignment, 1)))
       IN IF Add(aligned_offset, bytes) > arena.size
          THEN /\ arena' = arena
               /\ last' = Call(TheArena, "allocate", bytes, alignment, 0,
                               arena.offset, FALSE, 0)
          ELSE /\ arena' = [arena EXCEPT !.offset = Add(aligned_offset, bytes)]
               /\ last' = Call(TheArena, "allocate", bytes, alignment, 0,
                               arena.offset, TRUE, aligned_offset)
    /\ UNCHANGED <<stack, state>>

\* a deallocate that rewinds the arena to the pointer it is given
Arena_deallocate_rewinds(ptr) ==
    /\ arena # NoObject
    /\ arena' = [arena EXCEPT !.offset = ptr]
    /\ last' = Call(TheArena, "deallocate", 0, 0, ptr, arena.offset, TRUE, 0)
    /\ UNCHANGED <<stack, state>>

Arena_deallocate(ptr) ==
    /\ arena # NoObject
    /\ arena' = arena
    /\ last' = Call(TheArena, "deallocate", 0, 0, ptr, arena.offset, TRUE, 0)
    /\ UNCHANGED <<stack, state>>

\* a reset that keeps the offset
Arena_reset_kept ==
    /\ arena # NoObject
    /\ arena' = arena
    /\ last' = Call(TheArena, "reset", 0, 0, 0, arena.offset, TRUE, 0)
    /\ UNCHANGED <<stack, state>>

Arena_reset ==
    /\ arena # NoObject
    /\ arena' = [arena EXCEPT !.offset = 0]
    /\ last' = Call(TheArena, "reset", 0, 0, 0, arena.offset, TRUE, 0)
    /\ UNCHANGED <<stack, state>>

Arena_save ==
    /\ arena # NoObject
    /\ arena' = arena
    /\ last' = Call(TheArena, "save", 0, 0, arena.offset, arena.offset, TRUE, 0)
    /\ UNCHANGED <<stack, state>>

\* a restore that forgets to move the offset
Arena_restore_ignored(saved_offset) ==
    /\ arena # NoObject
    /\ arena' = arena
    /\ last' = Call(TheArena, "restore", 0, 0, saved_offset, arena.offset, TRUE, 0)
    /\ UNCHANGED <<stack, state>>

Arena_restore(saved_offset) ==
    /\ arena # NoObject
    /\ arena' = [arena EXCEPT !.offset = saved_offset]
    /\ last' = Call(TheArena, "restore", 0, 0, saved_offset, arena.offset, TRUE, 0)
    /\ UNCHANGED <<stack, state>>

----------------------------------------------------------------------------
(* StackAllocator, basic_stack.cpp *)

StackAllocator(size) == [total_size_ |-> size, current_offset_ |-> 0]

Stack_allocate(i, bytes, alignment) ==
    /\ i \in DOMAIN stack
    /\ LET aligned_offset == align_up(stack[i].current_offset_, alignment)
       IN IF Add(aligned_offset, bytes) > stack[i].total_size_
          THEN \* throw std::bad_alloc()
               /\ stack' = stack
               /\ last' = Call(<<"stack", i>>, "allocate", bytes, alignment, 0,
                               stack[i].current_offset_, FALSE, 0)
          ELSE /\ stack' = [stack EXCEPT ![i].current_offset_ = Add(aligned_offset, bytes)]
               /\ last' = Call(<<"stack", i>>, "allocate", bytes, alignment, 0,
                               stack[i].current_offset_, TRUE, aligned_offset)
    /\ UNCHANGED <<arena, state>>

Stack_get_marker(i) ==
    /\ i \in DOMAIN stack
    /\ stack' = stack
    /\ last' = Call(<<"stack", i>>, "get_marker", 0, 0, stack[i].current_offset_,
                    stack[i].current_offset_, TRUE, 0)
    /\ UNCHANGED <<arena, state>>

\* a free_to_marker without the check of the marker against the offset
Stack_free_to_marker_unchecked(i, marker) ==
    /\ i \in DOMAIN stack
    /\ stack' = [stack EXCEPT ![i].current_offset_ = marker]
    /\ last' = Call(<<"stack", i>>, "free_to_marker", 0, 0, marker,
                    stack[i].current_offset_, TRUE, 0)
    /\ UNCHANGED <<arena, state>>

Stack_free_to_marker(i, marker) ==
    /\ i \in DOMAIN stack
    /\ IF marker > stack[i].current_offset_
       THEN \* "Warning: Invalid marker", return
            /\ stack' = stack
            /\ last' = Call(<<"stack", i>>, "free_to_marker", 0, 0, marker,
                            stack[i].current_offset_, FALSE, 0)
       ELSE /\ stack' = [stack EXCEPT ![i].current_offset_ = marker]
            /\ last' = Call(<<"stack", i>>, "free_to_marker", 0, 0, marker,
                            stack[i].current_offset_, TRUE, 0)
    /\ UNCHANGED <<arena, state>>

Stack_clear(i) ==
    /\ i \in DOMAIN stack
    /\ stack' = [stack EXCEPT ![i].current_offset_ = 0]
    /\ last' = Call(<<"stack", i>>, "clear", 0, 0, 0, stack[i].current_offset_, TRUE, 0)
    /\ UNCHANGED <<arena, state>>

----------------------------------------------------------------------------
(* StackState and StackAllocator<T>, basic_stack_traits.cpp.  T is given by  *)
(* <<sizeof(T), alignof(T)>>; every typed view of a state works on the state. *)

StackState(size) == [total_size_ |-> size, current_offset_ |-> 0, ref_count_ |-> 1]

StackT_allocate(s, T, n) ==
    /\ s \in DOMAIN state
    /\ LET bytes == Mul(n, T[1])
           alignment == T[2]
           aligned_offset == align_up(state[s].current_offset_, alignment)
       IN IF Add(aligned_offset, bytes) > state[s].total_size_
          THEN \* throw std::bad_alloc()
               /\ state' = state
               /\ last' = Call(<<"state", s>>, "allocate", bytes, alignment, 0,
                               state[s].current_offset_, FALSE, 0)
          ELSE /\ state' = [state EXCEPT ![s].current_offset_ = Add(aligned_offset, bytes)]
               /\ last' = Call(<<"state", s>>, "allocate", bytes, alignment, 0,
                               state[s].current_offset_, TRUE, aligned_offset)
    /\ UNCHANGED <<arena, stack>>

StackT_deallocate(s, p, n) ==
    /\ s \in DOMAIN state
    /\ state' = state
    /\ last' = Call(<<"state", s>>, "deallocate", n, 0, p,
                    state[s].current_offset_, TRUE, 0)
    /\ UNCHANGED <<arena, stack>>

StackT_get_marker(s) ==
    /\ s \in DOMAIN state
    /\ state' = state
    /\ last' = Call(<<"state", s>>, "get_marker", 0, 0, state[s].current_offset_,
                    state[s].current_offset_, TRUE, 0)
    /\ UNCHANGED <<arena, stack>>

StackT_free_to_marker(s, marker) ==
    /\ s \in DOMAIN state
    /\ IF marker > state[s].current_offset_
       THEN \* "Warning: Invalid marker", return
            /\ state' = state
            /\ last' = Call(<<"state", s>>, "free_to_marker", 0, 0, marker,
                            state[s].current_offset_, FALSE, 0)
       ELSE /\ state' = [state EXCEPT ![s].current_offset_ = marker]
            /\ last' = Call(<<"state", s>>, "free_to_marker", 0, 0, marker,
                            state[s].current_offset_, TRUE, 0)
    /\ UNCHANGED <<arena, stack>>

StackT_clear(s) ==
    /\ s \in DOMAIN state
    /\ state' = [state EXCEPT ![s].current_offset_ = 0]
    /\ last' = Call(<<"state", s>>, "clear", 0, 0, 0, state[s].current_offset_, TRUE, 0)
    /\ UNCHANGED <<arena, stack>>

\* StackAllocator<T> objects: state_ points to the StackState, T is
\* <<sizeof(T), alignof(T)>>, live tells whether the object exists; family is
\* history: the constructor call the object stems from by copy, rebind and
\* assignment
StackHandle(s, T) == [state_ |-> s, T |-> T, live |-> TRUE, family |-> s]

Live == {h \in DOMAIN handles : handles[h].live}

\* delete state_: ~StackState() releases memory_, then the object itself
DeleteState(h, s) == [h EXCEPT ![s] = h[s] + 1]

\* explicit StackAllocator(size_t size)
StackT_StackAllocator(size, T) ==
    /\ Len(handles) < MaxHandles
    /\ state' = Append(state, StackState(size))
    /\ heap' = Append(heap, 0)
    /\ handles' = Append(handles, StackHandle(Len(state) + 1, T))
    /\ last' = Call(<<"state", Len(state) + 1>>, "construct", 0, 0, 0, 0, TRUE, 0)
    /\ UNCHANGED <<arena, stack>>

\* a copy constructor that does not count the new object
StackT_copy_uncounted(other) ==
    /\ other \in Live
    /\ Len(handles) < MaxHandles
    /\ LET s == handles[other].state_
       IN /\ state' = state
          /\ handles' = Append(handles, handles[other])
          /\ last' = Call(<<"state", s>>, "copy", 0, 0, 0, state[s].current_offset_, TRUE, 0)
    /\ UNCHANGED <<arena, stack, heap>>

\* StackAllocator(const StackAllocator& other)
StackT_copy(other) ==
    /\ other \in Live
    /\ Len(handles) < MaxHandles
    /\ LET s == handles[other].state_
       IN /\ state' = [state EXCEPT ![s].ref_count_ = Add(state[s].ref_count_, 1)]
          /\ handles' = Append(handles, handles[other])
          /\ last' = Call(<<"state", s>>, "copy", 0, 0, 0, state[s].current_offset_, TRUE, 0)
    /\ UNCHANGED <<arena, stack, heap>>

\* template<typename U> StackAllocator(const StackAllocator<U>& other)
StackT_rebind(other, U) ==
    /\ other \in Live
    /\ Len(handles) < MaxHandles
    /\ LET s == handles[other].state_
       IN /\ state' = [state EXCEPT ![s].ref_count_ = Add(state[s].ref_count_, 1)]
          /\ handles' = Append(handles, [handles[other] EXCEPT !.T = U])
          /\ last' = Call(<<"state", s>>, "rebind", 0, 0, 0, state[s].current_offset_, TRUE, 0)
    /\ UNCHANGED <<arena, stack, heap>>

\* StackAllocator& operator=(const StackAllocator& other)
StackT_assign(this, other) ==
    /\ this \in Live
    /\ other \in Live
    /\ handles[this].T = handles[other].T
    /\ LET s == handles[this].state_
           t == handles[other].state_
           dropped == [state EXCEPT ![s].ref_count_ = Sub(state[s].ref_count_, 1)]
       IN IF this = other
          THEN UNCHANGED <<state, heap, handles>>
               /\ last' = Call(<<"state", s>>, "assign", 0, 0, 0,
                               state[s].current_offset_, TRUE, 0)
          ELSE /\ state' = [dropped EXCEPT ![t].ref_count_ = Add(dropped[t].ref_count_, 1)]
               /\ heap' = IF dropped[s].ref_count_ = 0 THEN DeleteState(heap, s) ELSE heap
               /\ handles' = [handles EXCEPT ![this].state_ = t,
                                              ![this].family = handles[other].family]
               /\ last' = Call(<<"state", t>>, "assign", 0, 0, 0,
                               state[t].current_offset_, TRUE, 0)
    /\ UNCHANGED <<arena, stack>>

\* ~StackAllocator()
StackT_destroy(this) ==
    /\ this \in Live
    /\ LET s == handles[this].state_
       IN /\ state' = [state EXCEPT ![s].ref_count_ = Sub(state[s].ref_count_, 1)]
          /\ heap' = IF state'[s].ref_count_ = 0 THEN DeleteState(heap, s) ELSE heap
          /\ handles' = [handles EXCEPT ![this].live = FALSE]
          /\ last' = Call(<<"state", s>>, "destroy", 0, 0, 0,
                          state[s].current_offset_, TRUE, 0)
    /\ UNCHANGED <<arena, stack>>

\* bool operator==(const StackAllocator& other) const
StackT_equal(this, other) == handles[this].state_ = handles[other].state_

\* get_used_size() and get_total_size() of the object h
get_used_size(h) == state[handles[h].state_].current_offset_
get_total_size(h) == state[handles[h].state_].total_size_

----------------------------------------------------------------------------
(* What a receiver currently holds *)

OffsetOf(obj) ==
    IF obj[1] = "arena" THEN arena.offset
    ELSE IF obj[1] = "stack" THEN stack[obj[2]].current_offset_
    ELSE state[obj[2]].current_offset_

CapacityOf(obj) ==
    IF obj[1] = "arena" THEN arena.size
    ELSE IF obj[1] = "stack" THEN stack[obj[2]].total_size_
    ELSE state[obj[2]].total_size_

Objects ==
    (IF arena = NoObject THEN {} ELSE {TheArena})
    \cup {<<"stack", i>> : i \in DOMAIN stack}
    \cup {<<"state", s>> : s \in DOMAIN state}

Releases == {"restore", "reset", "clear", "free_to_marker"}

----------------------------------------------------------------------------
(* History and client state kept beside the program.  A program with one     *)
(* allocator records the ranges it was given; a program with two allocators  *)
(* keeps the marker it obtained last and passes it to free_to_marker.        *)

TwoInstances == Cardinality(Objects) = 2

\* the ranges returned since the last accepted release
Track ==
    IF last'.op = "allocate" /\ last'.ok
    THEN /\ Len(granted) < MaxAllocs
         /\ granted' = Append(granted, [start |-> last'.start, bytes |-> last'.bytes])
    ELSE IF last'.op \in Releases /\ last'.ok
    THEN granted' = <<>>
    ELSE granted' = granted

\* progress through: capacity 64, allocate(10, 1), save, allocate(20, 1),
\* restore(10), allocate(5, 1)
ScenarioStep(n, c, cap) ==
    IF c.op = "allocate" /\ c.ok /\ c.bytes = 10 /\ c.alignment = 1
       /\ c.before = 0 /\ cap = 64
    THEN 1
    ELSE IF n = 1 /\ c.op \in {"save", "get_marker"} /\ c.marker = 10 THEN 2
    ELSE IF n = 2 /\ c.op = "allocate" /\ c.ok /\ c.bytes = 20 /\ c.alignment = 1 THEN 3
    ELSE IF n = 3 /\ c.op \in {"restore", "free_to_marker"} /\ c.marker = 10 THEN 4
    ELSE IF n = 4 /\ c.op = "allocate" /\ c.ok /\ c.bytes = 5 /\ c.alignment = 1 THEN 5
    ELSE 0

Monitor == scen' = ScenarioStep(scen, last', CapacityOf(last'.obj))

\* the client keeps the marker it was last given
Hold ==
    held' = IF last'.op \in {"save", "get_marker"}
            THEN [obj |-> last'.obj, value |-> last'.marker]
            ELSE held

NoMarker == [obj |-> Nobody, value |-> 0]

\* the markers of a client that nests scopes: each saved value, and whether a
\* free_to_marker to an earlier marker has discarded it since
NoMarks == [marks |-> <<>>, usedStale |-> FALSE]

SaveMark ==
    /\ Len(nest.marks) < MaxMarks
    /\ nest' = [marks |-> Append(nest.marks, [value |-> last'.marker, stale |-> FALSE]),
                usedStale |-> FALSE]

\* the call passed marker number k; usedStale tells that it had been discarded
\* and that no marker still in force has the same value
UseMark(k) ==
    nest' = [marks |-> IF last'.ok
                       THEN [j \in DOMAIN nest.marks |->
                               IF j > k THEN [nest.marks[j] EXCEPT !.stale = TRUE]
                               ELSE nest.marks[j]]
                       ELSE nest.marks,
             usedStale |-> /\ nest.marks[k].stale
                           /\ \A j \in DOMAIN nest.marks :
                                nest.marks[j].value = nest.marks[k].value
                                  => nest.marks[j].stale]

KeepMarks == nest' = [nest EXCEPT !.usedStale = FALSE]

Observe ==
    /\ IF TwoInstances
       THEN Hold /\ UNCHANGED <<granted, scen>>
       ELSE Track /\ Monitor /\ UNCHANGED held
    /\ UNCHANGED <<nest, handles>>
    /\ UNCHANGED poolVars

\* the arguments a client passes: the two-allocator client passes the marker it
\* holds and allocates in steps of five bytes
MarkerArgs == IF TwoInstances THEN {held.value} ELSE Markers
BytesArgs == IF TwoInstances THEN {5} ELSE Bytes
AlignmentArgs == IF TwoInstances THEN {1} ELSE Alignments
TypeArgs == IF TwoInstances THEN {<<1, 1>>} ELSE Types
CountArgs == IF TwoInstances THEN {5} ELSE Counts

----------------------------------------------------------------------------
(* The operations a client can call *)

ArenaAllocate ==
    /\ \E bytes \in BytesArgs, alignment \in AlignmentArgs : Arena_allocate(bytes, alignment)
    /\ Observe

ArenaDeallocate ==
    /\ \E ptr \in Markers : Arena_deallocate(ptr)
    /\ Observe

ArenaReset == Arena_reset /\ Observe

ArenaSave == Arena_save /\ Observe

ArenaRestore ==
    /\ \E saved_offset \in MarkerArgs : Arena_restore(saved_offset)
    /\ Observe

StackAllocate ==
    /\ \E i \in DOMAIN stack, bytes \in BytesArgs, alignment \in AlignmentArgs :
         Stack_allocate(i, bytes, alignment)
    /\ Observe

StackGetMarker ==
    /\ \E i \in DOMAIN stack : Stack_get_marker(i)
    /\ Observe

StackFreeToMarker ==
    /\ \E i \in DOMAIN stack, marker \in MarkerArgs : Stack_free_to_marker(i, marker)
    /\ Observe

StackClear ==
    /\ \E i \in DOMAIN stack : Stack_clear(i)
    /\ Observe

StackTAllocate ==
    /\ \E s \in DOMAIN state, T \in TypeArgs, n \in CountArgs : StackT_allocate(s, T, n)
    /\ Observe

StackTDeallocate ==
    /\ \E s \in DOMAIN state, p \in MarkerArgs, n \in CountArgs : StackT_deallocate(s, p, n)
    /\ Observe

StackTGetMarker ==
    /\ \E s \in DOMAIN state : StackT_get_marker(s)
    /\ Observe

StackTFreeToMarker ==
    /\ \E s \in DOMAIN state, marker \in MarkerArgs : StackT_free_to_marker(s, marker)
    /\ Observe

StackTClear ==
    /\ \E s \in DOMAIN state : StackT_clear(s)
    /\ Observe

----------------------------------------------------------------------------
(* One bump allocator and its client *)

InitBump ==
    /\ \E size \in Capacities :
         \/ arena = ArenaAllocator(size) /\ stack = <<>> /\ state = <<>>
         \/ arena = NoObject /\ stack = <<StackAllocator(size)>> /\ state = <<>>
         \/ arena = NoObject /\ stack = <<>> /\ state = <<StackState(size)>>
    /\ last = NoCall
    /\ granted = <<>>
    /\ held = NoMarker
    /\ scen = 0
    /\ nest = NoMarks
    /\ handles = <<>>
    /\ pool = NoObject
    /\ outstanding = {}
    /\ validUse = TRUE
    /\ plast = NoPoolCall
    /\ freed = <<>>
    /\ heap = <<>>

Next ==
    \/ ArenaAllocate
    \/ ArenaDeallocate
    \/ ArenaReset
    \/ ArenaSave
    \/ ArenaRestore
    \/ StackAllocate
    \/ StackGetMarker
    \/ StackFreeToMarker
    \/ StackClear
    \/ StackTAllocate
    \/ StackTDeallocate
    \/ StackTGetMarker
    \/ StackTFreeToMarker
    \/ StackTClear

Spec == InitBump /\ [][Next]_vars

----------------------------------------------------------------------------
(* Two stack allocators of the same class and a client holding one marker *)

InitMarkers ==
    /\ arena = NoObject
    /\ \E size \in {16} :
         \/ stack = <<StackAllocator(size), StackAllocator(size)>> /\ state = <<>>
         \/ stack = <<>> /\ state = <<StackState(size), StackState(size)>>
    /\ last = NoCall
    /\ granted = <<>>
    /\ held = NoMarker
    /\ scen = 0
    /\ nest = NoMarks
    /\ handles = <<>>
    /\ pool = NoObject
    /\ outstanding = {}
    /\ validUse = TRUE
    /\ plast = NoPoolCall
    /\ freed = <<>>
    /\ heap = <<>>

NextMarkers ==
    \/ StackAllocate
    \/ StackGetMarker
    \/ StackFreeToMarker
    \/ StackClear
    \/ StackTAllocate
    \/ StackTDeallocate
    \/ StackTGetMarker
    \/ StackTFreeToMarker
    \/ StackTClear

SpecMarkers == InitMarkers /\ [][NextMarkers]_vars

----------------------------------------------------------------------------
(* One stack allocator and a client that saves markers in order and frees to *)
(* any of them, as main() does with its checkpoint                           *)

\* this client keeps no record of ranges and holds no single marker
NestedFrame ==
    /\ UNCHANGED <<granted, held, scen, handles>>
    /\ UNCHANGED poolVars

NestedStackAllocate ==
    /\ \E i \in DOMAIN stack : Stack_allocate(i, 5, 1)
    /\ KeepMarks
    /\ NestedFrame

NestedStackGetMarker ==
    /\ \E i \in DOMAIN stack : Stack_get_marker(i)
    /\ SaveMark
    /\ NestedFrame

NestedStackFreeToMarker ==
    /\ \E k \in DOMAIN nest.marks :
         /\ \E i \in DOMAIN stack : Stack_free_to_marker(i, nest.marks[k].value)
         /\ UseMark(k)
    /\ NestedFrame

NestedStackTAllocate ==
    /\ \E s \in DOMAIN state : StackT_allocate(s, <<1, 1>>, 5)
    /\ KeepMarks
    /\ NestedFrame

NestedStackTGetMarker ==
    /\ \E s \in DOMAIN state : StackT_get_marker(s)
    /\ SaveMark
    /\ NestedFrame

NestedStackTFreeToMarker ==
    /\ \E k \in DOMAIN nest.marks :
         /\ \E s \in DOMAIN state : StackT_free_to_marker(s, nest.marks[k].value)
         /\ UseMark(k)
    /\ NestedFrame

InitNested ==
    /\ arena = NoObject
    /\ \E size \in Capacities :
         \/ stack = <<StackAllocator(size)>> /\ state = <<>>
         \/ stack = <<>> /\ state = <<StackState(size)>>
    /\ last = NoCall
    /\ granted = <<>>
    /\ held = NoMarker
    /\ scen = 0
    /\ nest = NoMarks
    /\ handles = <<>>
    /\ pool = NoObject
    /\ outstanding = {}
    /\ validUse = TRUE
    /\ plast = NoPoolCall
    /\ freed = <<>>
    /\ heap = <<>>

NextNested ==
    \/ NestedStackAllocate
    \/ NestedStackGetMarker
    \/ NestedStackFreeToMarker
    \/ NestedStackTAllocate
    \/ NestedStackTGetMarker
    \/ NestedStackTFreeToMarker

SpecNested == InitNested /\ [][NextNested]_vars

----------------------------------------------------------------------------
(* Programs that construct, copy, rebind, assign and destroy                   *)
(* StackAllocator<T> objects, and a program that allocates through the copies  *)
(* and rebound copies of one StackAllocator<T>                                 *)

ViewTypes == {<<1, 1>>, <<4, 4>>}
ViewCounts == {5, Mod - 1}
ViewMarkers == {0, 5}

InitLife ==
    /\ arena = NoObject
    /\ stack = <<>>
    /\ state = <<>>
    /\ last = NoCall
    /\ granted = <<>>
    /\ held = NoMarker
    /\ scen = 0
    /\ nest = NoMarks
    /\ handles = <<>>
    /\ pool = NoObject
    /\ outstanding = {}
    /\ validUse = TRUE
    /\ plast = NoPoolCall
    /\ freed = <<>>
    /\ heap = <<>>

\* the ranges returned by the stacks that still exist, each since the stack's
\* last accepted release, with the object they were returned through
TrackViews(h) ==
    IF last'.op = "allocate" /\ last'.ok
    THEN /\ Len(granted) <= MaxAllocs
         /\ granted' = Append(granted, [start |-> last'.start, bytes |-> last'.bytes,
                                        obj |-> last'.obj, view |-> h])
    ELSE IF last'.op \in Releases /\ last'.ok
    THEN granted' = SelectSeq(granted, LAMBDA g : g.obj # last'.obj)
    ELSE granted' = granted

\* the ranges of a deleted stack are gone with it
DropDeleted == granted' = SelectSeq(granted, LAMBDA g : heap'[g.obj[2]] = 0)

ViewFrame ==
    /\ UNCHANGED <<held, scen, nest>>
    /\ UNCHANGED poolVars

LifeFrame ==
    /\ UNCHANGED <<held, scen, nest>>
    /\ UNCHANGED <<pool, outstanding, validUse, plast, freed>>

ViewConstruct ==
    /\ \E T \in ViewTypes : StackT_StackAllocator(16, T)
    /\ DropDeleted
    /\ LifeFrame

ViewCopy ==
    /\ \E other \in Live : StackT_copy(other)
    /\ DropDeleted
    /\ LifeFrame

ViewRebind ==
    /\ \E other \in Live, U \in ViewTypes : StackT_rebind(other, U)
    /\ DropDeleted
    /\ LifeFrame

ViewAssign ==
    /\ \E this \in Live, other \in Live : StackT_assign(this, other)
    /\ DropDeleted
    /\ LifeFrame

ViewDestroy ==
    /\ \E this \in Live : StackT_destroy(this)
    /\ DropDeleted
    /\ LifeFrame

ViewAllocate ==
    /\ \E h \in Live, n \in ViewCounts :
         /\ StackT_allocate(handles[h].state_, handles[h].T, n)
         /\ TrackViews(h)
    /\ UNCHANGED handles
    /\ ViewFrame

ViewGetMarker ==
    /\ \E h \in Live : StackT_get_marker(handles[h].state_) /\ TrackViews(h)
    /\ UNCHANGED handles
    /\ ViewFrame

ViewFreeToMarker ==
    /\ \E h \in Live, marker \in ViewMarkers :
         StackT_free_to_marker(handles[h].state_, marker) /\ TrackViews(h)
    /\ UNCHANGED handles
    /\ ViewFrame

ViewClear ==
    /\ \E h \in Live : StackT_clear(handles[h].state_) /\ TrackViews(h)
    /\ UNCHANGED handles
    /\ ViewFrame

NextLife ==
    \/ ViewConstruct
    \/ ViewCopy
    \/ ViewRebind
    \/ ViewAssign
    \/ ViewDestroy

SpecLife == InitLife /\ [][NextLife]_vars

\* StackAllocator<T> allocator(size) of main, before the first copy
InitViews ==
    /\ \E T \in ViewTypes :
         handles = <<StackHandle(1, T)>>
    /\ state = <<StackState(16)>>
    /\ heap = <<0>>
    /\ arena = NoObject
    /\ stack = <<>>
    /\ last = NoCall
    /\ granted = <<>>
    /\ held = NoMarker
    /\ scen = 0
    /\ nest = NoMarks
    /\ pool = NoObject
    /\ outstanding = {}
    /\ validUse = TRUE
    /\ plast = NoPoolCall
    /\ freed = <<>>

NextViews ==
    \/ ViewCopy
    \/ ViewRebind
    \/ ViewAllocate
    \/ ViewGetMarker
    \/ ViewFreeToMarker
    \/ ViewClear

SpecViews == InitViews /\ [][NextViews]_vars

----------------------------------------------------------------------------
(* Properties of the bump allocators *)

Disjoint(r, q) == r.start + r.bytes <= q.start \/ q.start + q.bytes <= r.start

\* C2: the byte ranges [start, start + bytes) returned by successful allocations
\* with no release in between are pairwise disjoint and each lies inside
\* [0, capacity) of the backing buffer.
C2_RangesDisjointInCapacity ==
    \A o \in Objects :
      \A i \in 1 .. Len(granted) :
        /\ granted[i].start + granted[i].bytes <= CapacityOf(o)
        /\ \A j \in 1 .. i - 1 : Disjoint(granted[i], granted[j])

\* C3: for a power-of-two alignment a successful allocate returns an offset that
\* is a multiple of the alignment, namely the smallest such multiple that is >=
\* the offset before the call.
C3_ReturnsSmallestAlignedOffset ==
    (last.op = "allocate" /\ last.ok /\ IsPow2(last.alignment))
      => /\ last.start % last.alignment = 0
         /\ last.start = RoundUp(last.before, last.alignment)

\* C4: 0 <= offset <= capacity in every state reachable by allocate, save /
\* get_marker, restore / free_to_marker with any marker value, and reset / clear.
C4_OffsetWithinCapacity ==
    \A o \in Objects : 0 <= OffsetOf(o) /\ OffsetOf(o) <= CapacityOf(o)

\* C5: allocate fails exactly when align_up(offset, alignment) + bytes exceeds the
\* capacity; a failed call leaves offset and capacity unchanged; the capacity
\* never changes after construction.
C5_FailsExactlyWhenOverCapacity ==
    [][\A o \in Objects :
         /\ CapacityOf(o)' = CapacityOf(o)
         /\ (last'.op = "allocate" /\ last'.obj = o)
              => /\ ~last'.ok <=> (align_up(OffsetOf(o), last'.alignment) + last'.bytes
                                     > CapacityOf(o))
                 /\ ~last'.ok => OffsetOf(o)' = OffsetOf(o)]_vars

\* C6: a successful allocate of b bytes with power-of-two alignment a moves the offset to
\* align_up(offset, a) + b, so that from offset 0 the offset is the sum of the
\* aligned sizes; the offset never decreases across an allocate call and
\* decreases only in restore / free_to_marker / reset / clear.
C6_OffsetIsSumOfAlignedSizes ==
    [][\A o \in Objects :
         /\ (last'.op = "allocate" /\ last'.obj = o /\ last'.ok
               /\ IsPow2(last'.alignment))
              => OffsetOf(o)' = align_up(OffsetOf(o), last'.alignment) + last'.bytes
         /\ (last'.op = "allocate" /\ last'.obj = o) => OffsetOf(o)' >= OffsetOf(o)
         /\ OffsetOf(o)' < OffsetOf(o) => last'.op \in Releases]_vars

\* C7: restore(M) / free_to_marker(M) with M <= offset sets the offset to M; a
\* successful allocation starts at align_up(offset, a) of the offset it finds,
\* and calls that fail, are rejected or only read leave the offset alone, so the
\* next successful allocation after the restore starts at align_up(M, a) (at M
\* itself for alignment 1).  In the capacity-64 scenario the offsets are 10, 10
\* (marker), 30, 10 and the last allocation starts at 10 and leaves offset 15.
C7_RestoreThenAllocateReusesRange ==
    [][\A o \in Objects :
         /\ (last'.op \in {"restore", "free_to_marker"} /\ last'.obj = o
               /\ last'.marker <= OffsetOf(o))
              => OffsetOf(o)' = last'.marker
         /\ (last'.op = "allocate" /\ last'.obj = o /\ last'.ok)
              => /\ last'.start = align_up(OffsetOf(o), last'.alignment)
                 /\ last'.alignment = 1 => last'.start = OffsetOf(o)
         /\ (last'.op \in {"save", "get_marker", "deallocate"} \/ ~last'.ok)
              => OffsetOf(o)' = OffsetOf(o)
         /\ (last.op \in {"restore", "free_to_marker"} /\ last.marker <= last.before
               /\ last'.op = "allocate" /\ last'.ok)
              => last'.start = align_up(last.marker, last'.alignment)
         /\ scen' = 1 => OffsetOf(o)' = 10
         /\ scen' = 2 => OffsetOf(o)' = 10 /\ last'.marker = 10
         /\ scen' = 3 => OffsetOf(o)' = 30 /\ last'.start = 10
         /\ scen' = 4 => OffsetOf(o)' = 10
         /\ scen' = 5 => OffsetOf(o)' = 15 /\ last'.start = 10]_vars

\* C7 witness: the scenario has run to its end: after restore(10) from offset 30
\* the allocation of 5 bytes was granted.
C7_Witness ==
    /\ scen = 5
    /\ last.op = "allocate" /\ last.ok /\ last.bytes = 5 /\ last.before = 10

\* C8: ArenaAllocator::restore(M) with M greater than the current offset is
\* rejected and never sets the offset to M.
C8_ArenaRejectsMarkerAboveOffset ==
    (last.op = "restore" /\ last.marker > last.before)
      => ~last.ok /\ arena.offset = last.before

\* C9: StackAllocator::free_to_marker(M) with M greater than the current offset
\* is rejected and leaves offset and capacity unchanged; for every marker value
\* the offset after free_to_marker is <= the offset before it.
C9_StackRejectsMarkerAboveOffset ==
    [][\A o \in Objects :
         (last'.op = "free_to_marker" /\ last'.obj = o)
           => /\ last'.marker > OffsetOf(o)
                   => ~last'.ok /\ OffsetOf(o)' = OffsetOf(o)
              /\ CapacityOf(o)' = CapacityOf(o)
              /\ OffsetOf(o)' <= OffsetOf(o)]_vars

\* C9 witness: a free_to_marker with a marker above the offset has been rejected
\* on an allocator whose offset is not 0.
C9_Witness ==
    /\ last.op = "free_to_marker" /\ ~last.ok
    /\ last.marker > last.before /\ last.before > 0

\* C10: free_to_marker rejects a marker obtained from get_marker() of a different
\* allocator instance and leaves this allocator's offset unchanged.
C10_RejectsForeignMarker ==
    (last.op = "free_to_marker" /\ held.obj # Nobody /\ held.obj # last.obj)
      => ~last.ok /\ OffsetOf(last.obj) = last.before

\* C11: with markers M1 then M2 saved in that order, free_to_marker(M1) is
\* accepted and discards M2: from then on, also after new allocations have
\* raised the offset to M2 or above again, free_to_marker(M2) is not accepted.
C11_DiscardedMarkerRejected ==
    (last.op = "free_to_marker" /\ nest.usedStale) => ~last.ok

\* C12: ArenaAllocator::allocate and StackAllocator::allocate reject an alignment
\* that is not a power of two (0 included): the call returns no address and
\* leaves the offset where it was.
C12_RejectsNonPowerOfTwoAlignment ==
    (last.op = "allocate" /\ last.obj[1] \in {"arena", "stack"}
       /\ ~IsPow2(last.alignment))
      => ~last.ok /\ OffsetOf(last.obj) = last.before

\* C13: reset / clear sets the offset to 0 from every state and keeps the
\* capacity, which leaves the allocator in the state its constructor produces
\* for that capacity; the allocation that follows starts at align_up(0, a) and
\* succeeds exactly when it fits the whole capacity, as on a new allocator.
C13_ResetEqualsFresh ==
    [][/\ \A o \in Objects :
            (last'.op \in {"reset", "clear"} /\ last'.obj = o)
              => /\ OffsetOf(o)' = 0
                 /\ CapacityOf(o)' = CapacityOf(o)
                 /\ o[1] = "arena" => arena' = ArenaAllocator(arena.size)
                 /\ o[1] = "stack"
                      => stack'[o[2]] = StackAllocator(stack[o[2]].total_size_)
                 /\ o[1] = "state"
                      => state'[o[2]] = [StackState(state[o[2]].total_size_)
                                          EXCEPT !.ref_count_ = state[o[2]].ref_count_]
       /\ \A o \in Objects :
            (last.op \in {"reset", "clear"} /\ last'.op = "allocate" /\ last'.obj = o)
              => /\ last'.before = 0
                 /\ last'.ok <=> (Add(align_up(0, last'.alignment), last'.bytes)
                                    <= CapacityOf(o))
                 /\ last'.ok => /\ last'.start = align_up(0, last'.alignment)
                                /\ OffsetOf(o)' =
                                     Add(align_up(0, last'.alignment), last'.bytes)]_vars

\* C13 witness: a reset / clear has just emptied an allocator that had
\* allocations in it.
C13_Witness ==
    /\ last.op \in {"reset", "clear"} /\ last.before > 0
    /\ OffsetOf(last.obj) = 0
    /\ granted = <<>>

\* C14: deallocate on a bump allocator changes nothing: offset and capacity of
\* every allocator and the ranges returned so far stay as they were, whatever
\* pointer and count are passed.
C14_DeallocateIsNoOp ==
    [][last'.op = "deallocate"
         => /\ arena' = arena
            /\ stack' = stack
            /\ state' = state
            /\ granted' = granted]_vars

\* C14 witness: deallocate was called on an allocator holding live allocations.
C14_Witness ==
    /\ last.op = "deallocate"
    /\ last.before > 0
    /\ OffsetOf(last.obj) = last.before
    /\ granted # <<>>

----------------------------------------------------------------------------
(* PoolAllocator<T>, arena-vs-pool.cpp.  A Block is named <<chunk, index>>,  *)
(* NoSlot is the null pointer; next[b] is the field Block::next of block b,  *)
(* which lies beside the object's bytes and keeps its value while b is       *)
(* handed out.  ProperPoolAllocator (pool-allocator-comparisons.cpp) has the *)
(* same three routines with numBlocks fixed.                                 *)

Blocks(p) == DOMAIN p.next

\* history of the slots given back: a deallocate of a handed-out slot puts it
\* on top, a deallocate of any other slot ends the record, an allocate takes
\* the top away
GiveBack ==
    freed' = IF ~plast'.ok THEN freed
             ELSE IF plast'.live THEN Append(freed, plast'.ptr)
             ELSE <<>>

Reuse ==
    freed' = IF freed = <<>> THEN freed ELSE SubSeq(freed, 1, Len(freed) - 1)

\* an allocateChunk that links the new slots downwards, the last slot first
allocateChunk_reversed(p) ==
    LET c == Len(p.chunks) + 1
        n == p.objectsPerChunk
        linked == [b \in {<<c, i>> : i \in 0 .. n - 1} |->
                     IF b[2] > 0 THEN <<c, b[2] - 1>> ELSE p.freeList]
    IN [p EXCEPT !.next = [b \in Blocks(p) \cup DOMAIN linked |->
                             IF b \in DOMAIN linked THEN linked[b] ELSE p.next[b]],
                 !.freeList = <<c, n - 1>>,
                 !.chunks = Append(p.chunks, c)]

allocateChunk(p) ==
    LET c == Len(p.chunks) + 1
        n == p.objectsPerChunk
        linked == [b \in {<<c, i>> : i \in 0 .. n - 1} |->
                     IF b[2] < n - 1 THEN <<c, b[2] + 1>> ELSE p.freeList]
    IN [p EXCEPT !.next = [b \in Blocks(p) \cup DOMAIN linked |->
                             IF b \in DOMAIN linked THEN linked[b] ELSE p.next[b]],
                 !.freeList = <<c, 0>>,
                 !.chunks = Append(p.chunks, c)]

\* a constructor that leaves the first chunk to the first allocate
PoolAllocator_lazy(objectsPerChunk) ==
    [freeList |-> NoSlot, next |-> <<>>, chunks |-> <<>>,
     objectsPerChunk |-> objectsPerChunk,
     totalAllocated |-> 0, totalDeallocated |-> 0]

PoolAllocator(objectsPerChunk) ==
    allocateChunk([freeList |-> NoSlot, next |-> <<>>, chunks |-> <<>>,
                   objectsPerChunk |-> objectsPerChunk,
                   totalAllocated |-> 0, totalDeallocated |-> 0])

\* an allocate that creates the next chunk as soon as it takes the last free slot
Pool_allocate_eager ==
    /\ pool # NoObject
    /\ pool.totalAllocated < MaxCalls
    /\ pool.freeList # NoSlot
    /\ LET block == pool.freeList
           popped == [pool EXCEPT !.freeList = pool.next[block],
                                  !.totalAllocated = Add(pool.totalAllocated, 1)]
           grow == popped.freeList = NoSlot /\ Len(pool.chunks) < MaxChunks
       IN /\ pool' = IF grow THEN allocateChunk(popped) ELSE popped
          /\ outstanding' = outstanding \cup {block}
          /\ plast' = PoolCall("allocate", block, TRUE, block \in outstanding, grow)
          /\ heap' = IF grow THEN Append(heap, 0) ELSE heap
    /\ Reuse
    /\ UNCHANGED validUse

Pool_allocate ==
    /\ pool # NoObject
    /\ pool.totalAllocated < MaxCalls
    /\ pool.freeList = NoSlot => Len(pool.chunks) < MaxChunks
    /\ LET p == IF pool.freeList = NoSlot THEN allocateChunk(pool) ELSE pool
           block == p.freeList
       IN /\ pool' = [p EXCEPT !.freeList = p.next[block],
                               !.totalAllocated = Add(p.totalAllocated, 1)]
          /\ outstanding' = outstanding \cup {block}
          /\ plast' = PoolCall("allocate", block, TRUE, block \in outstanding,
                               pool.freeList = NoSlot)
    /\ heap' = IF pool.freeList = NoSlot THEN Append(heap, 0) ELSE heap
    /\ Reuse
    /\ UNCHANGED validUse

\* a deallocate that makes the block the head without linking it to the old head
Pool_deallocate_unlinked(ptr) ==
    /\ pool # NoObject
    /\ pool.totalDeallocated < MaxCalls
    /\ IF ptr = NoSlot
       THEN pool' = pool
       ELSE pool' = [pool EXCEPT !.freeList = ptr,
                                 !.totalDeallocated = Add(pool.totalDeallocated, 1)]
    /\ outstanding' = outstanding \ {ptr}
    /\ validUse' = (validUse /\ ptr \in outstanding \cup {NoSlot})
    /\ plast' = PoolCall("deallocate", ptr, ptr # NoSlot, ptr \in outstanding, FALSE)
    /\ GiveBack
    /\ UNCHANGED heap

\* a deallocate that puts the block behind the head of the free list
Pool_deallocate_second(ptr) ==
    /\ pool # NoObject
    /\ pool.totalDeallocated < MaxCalls
    /\ IF ptr = NoSlot
       THEN pool' = pool
       ELSE IF pool.freeList = NoSlot
       THEN pool' = [pool EXCEPT !.next[ptr] = NoSlot,
                                 !.freeList = ptr,
                                 !.totalDeallocated = Add(pool.totalDeallocated, 1)]
       ELSE pool' = [pool EXCEPT !.next[ptr] = pool.next[pool.freeList],
                                 !.next[pool.freeList] = ptr,
                                 !.totalDeallocated = Add(pool.totalDeallocated, 1)]
    /\ outstanding' = outstanding \ {ptr}
    /\ validUse' = (validUse /\ ptr \in outstanding \cup {NoSlot})
    /\ plast' = PoolCall("deallocate", ptr, ptr # NoSlot, ptr \in outstanding, FALSE)
    /\ GiveBack
    /\ UNCHANGED heap

\* a deallocate that counts the call before it tests for null
Pool_deallocate_counting(ptr) ==
    /\ pool # NoObject
    /\ pool.totalDeallocated < MaxCalls
    /\ IF ptr = NoSlot
       THEN pool' = [pool EXCEPT !.totalDeallocated = Add(pool.totalDeallocated, 1)]
       ELSE pool' = [pool EXCEPT !.next[ptr] = pool.freeList,
                                 !.freeList = ptr,
                                 !.totalDeallocated = Add(pool.totalDeallocated, 1)]
    /\ outstanding' = outstanding \ {ptr}
    /\ validUse' = (validUse /\ ptr \in outstanding \cup {NoSlot})
    /\ plast' = PoolCall("deallocate", ptr, ptr # NoSlot, ptr \in outstanding, FALSE)
    /\ GiveBack
    /\ UNCHANGED heap

Pool_deallocate(ptr) ==
    /\ pool # NoObject
    /\ pool.totalDeallocated < MaxCalls
    /\ IF ptr = NoSlot
       THEN pool' = pool
       ELSE pool' = [pool EXCEPT !.next[ptr] = pool.freeList,
                                 !.freeList = ptr,
                                 !.totalDeallocated = Add(pool.totalDeallocated, 1)]
    /\ outstanding' = outstanding \ {ptr}
    /\ validUse' = (validUse /\ ptr \in outstanding \cup {NoSlot})
    /\ plast' = PoolCall("deallocate", ptr, ptr # NoSlot, ptr \in outstanding, FALSE)
    /\ GiveBack
    /\ UNCHANGED heap

\* the system's record after delete[] of every chunk in the sequence
Released(h, chunks) ==
    [c \in DOMAIN h |-> h[c] + Cardinality({i \in DOMAIN chunks : chunks[i] = c})]

\* ~PoolAllocator: the vector of unique_ptr releases every chunk it holds
Pool_destroy ==
    /\ pool # NoObject
    /\ pool' = NoObject
    /\ heap' = Released(heap, pool.chunks)
    /\ plast' = PoolCall("destroy", NoSlot, TRUE, FALSE, FALSE)
    /\ UNCHANGED <<outstanding, validUse, freed>>

getChunkCount(p) == Len(p.chunks)
getActiveObjects(p) == Sub(p.totalAllocated, p.totalDeallocated)

\* the blocks met by following next from freeList, at most n of them
RECURSIVE Walk(_, _, _)
Walk(p, b, n) ==
    IF b = NoSlot \/ n = 0 THEN <<>> ELSE <<b>> \o Walk(p, p.next[b], n - 1)

FreeList(p) == Walk(p, p.freeList, Cardinality(Blocks(p)) + 1)

Range(f) == {f[i] : i \in DOMAIN f}

----------------------------------------------------------------------------
(* IntrusivePoolAllocator<T>, pool-allocator-comparisons.cpp.  Every chunk   *)
(* starts with a header {nextChunk, numBlocks}; chunkList is the most recent *)
(* chunk, NoChunk the null pointer.  numBlocks is 1000 in the source and a   *)
(* small number here.                                                        *)

NoChunk == 0

Intrusive_allocateChunk(p) ==
    LET c == Cardinality(DOMAIN p.nextChunk) + 1
        n == p.numBlocks
        linked == [b \in {<<c, i>> : i \in 0 .. n - 1} |->
                     IF b[2] < n - 1 THEN <<c, b[2] + 1>> ELSE p.freeList]
    IN [p EXCEPT !.nextChunk = [d \in DOMAIN p.nextChunk \cup {c} |->
                                  IF d = c THEN p.chunkList ELSE p.nextChunk[d]],
                 !.chunkList = c,
                 !.next = [b \in Blocks(p) \cup DOMAIN linked |->
                             IF b \in DOMAIN linked THEN linked[b] ELSE p.next[b]],
                 !.freeList = <<c, 0>>]

IntrusivePoolAllocator(numBlocks) ==
    Intrusive_allocateChunk([freeList |-> NoSlot, next |-> <<>>,
                             chunkList |-> NoChunk, nextChunk |-> <<>>,
                             numBlocks |-> numBlocks])

\* the chunks met by following nextChunk from c, at most n of them
RECURSIVE ChunkWalk(_, _, _)
ChunkWalk(p, c, n) ==
    IF c = NoChunk \/ n = 0 THEN <<>>
    ELSE <<c>> \o ChunkWalk(p, p.nextChunk[c], n - 1)

ChunkList(p) == ChunkWalk(p, p.chunkList, Cardinality(DOMAIN p.nextChunk) + 1)

Intrusive_allocate ==
    /\ pool # NoObject
    /\ plast.allocs < MaxCalls
    /\ pool.freeList = NoSlot => Len(ChunkList(pool)) < MaxChunks
    /\ LET p == IF pool.freeList = NoSlot THEN Intrusive_allocateChunk(pool) ELSE pool
           block == p.freeList
       IN /\ pool' = [p EXCEPT !.freeList = p.next[block]]
          /\ outstanding' = outstanding \cup {block}
          /\ plast' = PoolCall("allocate", block, TRUE, block \in outstanding,
                               pool.freeList = NoSlot)
    /\ heap' = IF pool.freeList = NoSlot THEN Append(heap, 0) ELSE heap
    /\ Reuse
    /\ UNCHANGED validUse

Intrusive_deallocate(ptr) ==
    /\ pool # NoObject
    /\ plast.frees < MaxCalls
    /\ pool' = [pool EXCEPT !.next[ptr] = pool.freeList,
                            !.freeList = ptr]
    /\ outstanding' = outstanding \ {ptr}
    /\ validUse' = (validUse /\ ptr \in outstanding)
    /\ plast' = PoolCall("deallocate", ptr, TRUE, ptr \in outstanding, FALSE)
    /\ GiveBack
    /\ UNCHANGED heap

\* a destructor that deletes the first chunk of the list only
Intrusive_destroy_head ==
    /\ pool # NoObject
    /\ pool' = NoObject
    /\ heap' = Released(heap, <<pool.chunkList>>)
    /\ plast' = PoolCall("destroy", NoSlot, TRUE, FALSE, FALSE)
    /\ UNCHANGED <<outstanding, validUse, freed>>

\* ~IntrusivePoolAllocator: while (chunkList) { delete[] chunkList; chunkList = next }
Intrusive_destroy ==
    /\ pool # NoObject
    /\ pool' = NoObject
    /\ heap' = Released(heap, ChunkList(pool))
    /\ plast' = PoolCall("destroy", NoSlot, TRUE, FALSE, FALSE)
    /\ UNCHANGED <<outstanding, validUse, freed>>

\* the chunks an allocator holds for release at teardown
OwnedChunks(p) == IF "chunks" \in DOMAIN p THEN p.chunks ELSE ChunkList(p)

----------------------------------------------------------------------------
(* Fixed pools.  FixedPoolAllocator<T, MaxObjects>, pool-allocator-          *)
(* comparisons.cpp, keeps Block::next beside the object's bytes.             *)
(* SimplePoolAllocator<T, PoolSize>, simple-pool-allocator-manual.cpp, keeps *)
(* FreeNode::next in the first bytes of the slot itself, so the owner of a   *)
(* handed-out slot writes over it.  The slots of the inline array are        *)
(* <<1, 0>> .. <<1, N - 1>>.                                                 *)

\* the content of a link field its slot's owner has written over
Garbage == <<0, 1>>
\* an address that does not lie in the pool's array
Outside == <<2, 0>>

Slots(n) == {<<1, i>> : i \in 0 .. n - 1}

FixedPoolAllocator(MaxObjects) ==
    [freeList |-> <<1, 0>>,
     next |-> [b \in Slots(MaxObjects) |->
                 IF b[2] < MaxObjects - 1 THEN <<1, b[2] + 1>> ELSE NoSlot],
     MaxObjects |-> MaxObjects]

\* an allocate that hands out the first slot again when the pool is exhausted
Fixed_allocate_again ==
    /\ pool # NoObject
    /\ plast.allocs < MaxCalls
    /\ LET block == IF pool.freeList = NoSlot THEN <<1, 0>> ELSE pool.freeList
       IN /\ pool' = [pool EXCEPT !.freeList = IF pool.freeList = NoSlot THEN NoSlot
                                                ELSE pool.next[block]]
          /\ outstanding' = outstanding \cup {block}
          /\ plast' = PoolCall("allocate", block, TRUE, block \in outstanding, FALSE)
          /\ Reuse
    /\ UNCHANGED <<validUse, heap>>

Fixed_allocate ==
    /\ pool # NoObject
    /\ plast.allocs < MaxCalls
    /\ IF pool.freeList = NoSlot
       THEN \* return nullptr
            /\ pool' = pool
            /\ plast' = PoolCall("allocate", NoSlot, FALSE, FALSE, FALSE)
            /\ UNCHANGED <<outstanding, freed>>
       ELSE LET block == pool.freeList
            IN /\ pool' = [pool EXCEPT !.freeList = pool.next[block]]
               /\ outstanding' = outstanding \cup {block}
               /\ plast' = PoolCall("allocate", block, TRUE, block \in outstanding, FALSE)
               /\ Reuse
    /\ UNCHANGED <<validUse, heap>>

Fixed_deallocate(ptr) ==
    /\ pool # NoObject
    /\ plast.frees < MaxCalls
    /\ pool' = [pool EXCEPT !.next[ptr] = pool.freeList,
                            !.freeList = ptr]
    /\ outstanding' = outstanding \ {ptr}
    /\ validUse' = (validUse /\ ptr \in outstanding)
    /\ plast' = PoolCall("deallocate", ptr, TRUE, ptr \in outstanding, FALSE)
    /\ GiveBack
    /\ UNCHANGED heap

\* initialize_pool() called by the constructor
SimplePoolAllocator(PoolSize) ==
    [free_head_ |-> <<1, 0>>,
     next |-> [b \in Slots(PoolSize) |->
                 IF b[2] < PoolSize - 1 THEN <<1, b[2] + 1>> ELSE NoSlot],
     allocated_count_ |-> 0,
     PoolSize |-> PoolSize]

\* reading a link field that holds the owner's bytes yields any pointer
Simple_allocate ==
    /\ pool # NoObject
    /\ plast.allocs < MaxCalls
    /\ IF pool.free_head_ = NoSlot
       THEN \* throw std::bad_alloc()
            /\ pool' = pool
            /\ plast' = PoolCall("allocate", NoSlot, FALSE, FALSE, FALSE)
            /\ UNCHANGED <<outstanding, freed>>
       ELSE LET node == pool.free_head_
            IN /\ \E nxt \in IF pool.next[node] = Garbage
                              THEN Blocks(pool) \cup {NoSlot}
                              ELSE {pool.next[node]} :
                    pool' = [pool EXCEPT !.free_head_ = nxt,
                                         !.next[node] = Garbage,
                                         !.allocated_count_ = Add(pool.allocated_count_, 1)]
               /\ outstanding' = outstanding \cup {node}
               /\ plast' = PoolCall("allocate", node, TRUE, node \in outstanding, FALSE)
               /\ Reuse
    /\ UNCHANGED <<validUse, heap>>

Simple_deallocate(p) ==
    /\ pool # NoObject
    /\ plast.frees < MaxCalls
    /\ IF p = NoSlot \/ p \notin Blocks(pool)
       THEN \* return; or "Warning: Pointer not from this pool!", return
            /\ pool' = pool
            /\ plast' = PoolCall("deallocate", p, FALSE, FALSE, FALSE)
            /\ UNCHANGED <<outstanding, validUse>>
       ELSE /\ pool' = [pool EXCEPT !.next[p] = pool.free_head_,
                                    !.free_head_ = p,
                                    !.allocated_count_ = Sub(pool.allocated_count_, 1)]
            /\ outstanding' = outstanding \ {p}
            /\ validUse' = (validUse /\ p \in outstanding)
            /\ plast' = PoolCall("deallocate", p, TRUE, p \in outstanding, FALSE)
    /\ GiveBack
    /\ UNCHANGED heap

\* PoolAllocator<T, PoolSize> of pooling-allocator-v2.cpp; SimplePoolAllocator of
\* simple-pool-allocator.cpp has the same allocate and deallocate
PoolAllocatorV2(PoolSize) ==
    [free_head_ |-> <<1, 0>>,
     next |-> [b \in Slots(PoolSize) |->
                 IF b[2] < PoolSize - 1 THEN <<1, b[2] + 1>> ELSE NoSlot],
     allocated_count_ |-> 0,
     PoolSize |-> PoolSize,
     class |-> "v2"]

\* an allocate that serves any n like n = 1
PoolV2_allocate_any(n) ==
    /\ pool # NoObject
    /\ plast.allocs < MaxCalls
    /\ IF pool.free_head_ = NoSlot
       THEN /\ pool' = pool
            /\ plast' = PoolCallN("allocate", NoSlot, FALSE, FALSE, n)
            /\ UNCHANGED <<outstanding, freed>>
       ELSE LET node == pool.free_head_
            IN /\ \E nxt \in IF pool.next[node] = Garbage
                              THEN Blocks(pool) \cup {NoSlot}
                              ELSE {pool.next[node]} :
                    pool' = [pool EXCEPT !.free_head_ = nxt,
                                         !.next[node] = Garbage,
                                         !.allocated_count_ = Add(pool.allocated_count_, 1)]
               /\ outstanding' = outstanding \cup {node}
               /\ plast' = PoolCallN("allocate", node, TRUE, node \in outstanding, n)
               /\ Reuse
    /\ UNCHANGED <<validUse, heap>>

PoolV2_allocate(n) ==
    /\ pool # NoObject
    /\ plast.allocs < MaxCalls
    /\ IF n # 1 \/ pool.free_head_ = NoSlot
       THEN \* throw std::bad_alloc()
            /\ pool' = pool
            /\ plast' = PoolCallN("allocate", NoSlot, FALSE, FALSE, n)
            /\ UNCHANGED <<outstanding, freed>>
       ELSE LET node == pool.free_head_
            IN /\ \E nxt \in IF pool.next[node] = Garbage
                              THEN Blocks(pool) \cup {NoSlot}
                              ELSE {pool.next[node]} :
                    pool' = [pool EXCEPT !.free_head_ = nxt,
                                         !.next[node] = Garbage,
                                         !.allocated_count_ = Add(pool.allocated_count_, 1)]
               /\ outstanding' = outstanding \cup {node}
               /\ plast' = PoolCallN("allocate", node, TRUE, node \in outstanding, n)
               /\ Reuse
    /\ UNCHANGED <<validUse, heap>>

\* a deallocate without the bounds check
PoolV2_deallocate_unchecked(p, n) ==
    /\ pool # NoObject
    /\ plast.frees < MaxCalls
    /\ IF n # 1 \/ p = NoSlot
       THEN /\ pool' = pool
            /\ plast' = PoolCallN("deallocate", p, FALSE, FALSE, n)
            /\ UNCHANGED <<outstanding, validUse>>
       ELSE /\ pool' = [pool EXCEPT !.next = [b \in DOMAIN pool.next \cup {p} |->
                                               IF b = p THEN pool.free_head_
                                               ELSE pool.next[b]],
                                    !.free_head_ = p,
                                    !.allocated_count_ = Sub(pool.allocated_count_, 1)]
            /\ outstanding' = outstanding \ {p}
            /\ validUse' = (validUse /\ p \in outstanding)
            /\ plast' = PoolCallN("deallocate", p, TRUE, p \in outstanding, n)
    /\ GiveBack
    /\ UNCHANGED heap

PoolV2_deallocate(p, n) ==
    /\ pool # NoObject
    /\ plast.frees < MaxCalls
    /\ IF n # 1 \/ p = NoSlot \/ p \notin Slots(pool.PoolSize)
       THEN \* return; or "Warning: Pointer not from this pool!", return
            /\ pool' = pool
            /\ plast' = PoolCallN("deallocate", p, FALSE, FALSE, n)
            /\ UNCHANGED <<outstanding, validUse>>
       ELSE /\ pool' = [pool EXCEPT !.next[p] = pool.free_head_,
                                    !.free_head_ = p,
                                    !.allocated_count_ = Sub(pool.allocated_count_, 1)]
            /\ outstanding' = outstanding \ {p}
            /\ validUse' = (validUse /\ p \in outstanding)
            /\ plast' = PoolCallN("deallocate", p, TRUE, p \in outstanding, n)
    /\ GiveBack
    /\ UNCHANGED heap

\* PoolAllocator<T, PoolSize> of pool-test.cpp: no count of allocated blocks
PoolAllocatorTest(PoolSize) ==
    [free_head_ |-> <<1, 0>>,
     next |-> [b \in Slots(PoolSize) |->
                 IF b[2] < PoolSize - 1 THEN <<1, b[2] + 1>> ELSE NoSlot],
     PoolSize |-> PoolSize,
     class |-> "test"]

PoolTest_allocate(n) ==
    /\ pool # NoObject
    /\ plast.allocs < MaxCalls
    /\ IF n # 1 \/ pool.free_head_ = NoSlot
       THEN \* throw std::bad_alloc()
            /\ pool' = pool
            /\ plast' = PoolCallN("allocate", NoSlot, FALSE, FALSE, n)
            /\ UNCHANGED <<outstanding, freed>>
       ELSE LET node == pool.free_head_
            IN /\ \E nxt \in IF pool.next[node] = Garbage
                              THEN Blocks(pool) \cup {NoSlot}
                              ELSE {pool.next[node]} :
                    pool' = [pool EXCEPT !.free_head_ = nxt,
                                         !.next[node] = Garbage]
               /\ outstanding' = outstanding \cup {node}
               /\ plast' = PoolCallN("allocate", node, TRUE, node \in outstanding, n)
               /\ Reuse
    /\ UNCHANGED <<validUse, heap>>

PoolTest_deallocate(p, n) ==
    /\ pool # NoObject
    /\ plast.frees < MaxCalls
    /\ IF n # 1 \/ p = NoSlot
       THEN \* return
            /\ pool' = pool
            /\ plast' = PoolCallN("deallocate", p, FALSE, FALSE, n)
            /\ UNCHANGED <<outstanding, validUse>>
       ELSE /\ pool' = [pool EXCEPT !.next[p] = pool.free_head_,
                                    !.free_head_ = p]
            /\ outstanding' = outstanding \ {p}
            /\ validUse' = (validUse /\ p \in outstanding)
            /\ plast' = PoolCallN("deallocate", p, TRUE, p \in outstanding, n)
    /\ GiveBack
    /\ UNCHANGED heap

allocated_count(p) == p.allocated_count_
available_count(p) == Sub(p.PoolSize, p.allocated_count_)

\* the number of slots of a fixed pool
CapacityOfPool(p) == IF "PoolSize" \in DOMAIN p THEN p.PoolSize ELSE p.MaxObjects

----------------------------------------------------------------------------
(* A growable pool and its client *)

InitPool ==
    /\ \E objectsPerChunk \in 1 .. MaxObjectsPerChunk :
         pool = PoolAllocator(objectsPerChunk)
    /\ outstanding = {}
    /\ validUse = TRUE
    /\ plast = NoPoolCall
    /\ freed = <<>>
    /\ heap = <<0>>
    /\ arena = NoObject
    /\ stack = <<>>
    /\ state = <<>>
    /\ last = NoCall
    /\ granted = <<>>
    /\ held = NoMarker
    /\ scen = 0
    /\ nest = NoMarks
    /\ handles = <<>>

PoolAllocate == Pool_allocate /\ UNCHANGED bumpVars

PoolDeallocate ==
    /\ \E ptr \in Blocks(pool) \cup {NoSlot} : Pool_deallocate(ptr)
    /\ UNCHANGED bumpVars

NextPool ==
    \/ PoolAllocate
    \/ PoolDeallocate

SpecPool == InitPool /\ [][NextPool]_vars

----------------------------------------------------------------------------
(* A chunk-tracking pool from construction to teardown *)

IsIntrusive == pool # NoObject /\ "chunkList" \in DOMAIN pool
IsVector == pool # NoObject /\ "chunks" \in DOMAIN pool

InitTeardown ==
    /\ \E n \in 1 .. MaxObjectsPerChunk :
         \/ pool = PoolAllocator(n)
         \/ pool = IntrusivePoolAllocator(n)
    /\ outstanding = {}
    /\ validUse = TRUE
    /\ plast = NoPoolCall
    /\ freed = <<>>
    /\ heap = <<0>>
    /\ arena = NoObject
    /\ stack = <<>>
    /\ state = <<>>
    /\ last = NoCall
    /\ granted = <<>>
    /\ held = NoMarker
    /\ scen = 0
    /\ nest = NoMarks
    /\ handles = <<>>

VectorAllocate == IsVector /\ Pool_allocate /\ UNCHANGED bumpVars

VectorDeallocate ==
    /\ IsVector
    /\ \E ptr \in Blocks(pool) \cup {NoSlot} : Pool_deallocate(ptr)
    /\ UNCHANGED bumpVars

VectorDestroy == IsVector /\ Pool_destroy /\ UNCHANGED bumpVars

IntrusiveAllocate == IsIntrusive /\ Intrusive_allocate /\ UNCHANGED bumpVars

IntrusiveDeallocate ==
    /\ IsIntrusive
    /\ \E ptr \in Blocks(pool) : Intrusive_deallocate(ptr)
    /\ UNCHANGED bumpVars

IntrusiveDestroy == IsIntrusive /\ Intrusive_destroy /\ UNCHANGED bumpVars

NextTeardown ==
    \/ VectorAllocate
    \/ VectorDeallocate
    \/ VectorDestroy
    \/ IntrusiveAllocate
    \/ IntrusiveDeallocate
    \/ IntrusiveDestroy

SpecTeardown == InitTeardown /\ [][NextTeardown]_vars

----------------------------------------------------------------------------
(* LeakyPoolAllocator of pool-allocator-comparisons.cpp from construction to   *)
(* teardown.  Its only data member is freeList; heap lists, for every chunk    *)
(* obtained with new[], how often it was released.  numBlocks, 1000 in the     *)
(* source, is MaxObjectsPerChunk here.                                         *)

\* allocateChunk(): the chunk c is linked in index order in front of freeList
\* and its address is kept nowhere else
Leaky_allocateChunk(p, c) ==
    LET n == MaxObjectsPerChunk
        linked == [b \in {<<c, i>> : i \in 0 .. n - 1} |->
                     IF b[2] < n - 1 THEN <<c, b[2] + 1>> ELSE p.freeList]
    IN [p EXCEPT !.next = [b \in Blocks(p) \cup DOMAIN linked |->
                             IF b \in DOMAIN linked THEN linked[b] ELSE p.next[b]],
                 !.freeList = <<c, 0>>]

LeakyPoolAllocator ==
    Leaky_allocateChunk([freeList |-> NoSlot, next |-> <<>>, class |-> "leaky"], 1)

Leaky_allocate ==
    /\ pool # NoObject
    /\ plast.allocs < MaxCalls
    /\ pool.freeList = NoSlot => Len(heap) < MaxChunks
    /\ LET p == IF pool.freeList = NoSlot
                THEN Leaky_allocateChunk(pool, Len(heap) + 1) ELSE pool
           block == p.freeList
       IN /\ pool' = [p EXCEPT !.freeList = p.next[block]]
          /\ outstanding' = outstanding \cup {block}
          /\ plast' = PoolCall("allocate", block, TRUE, block \in outstanding,
                               pool.freeList = NoSlot)
    /\ heap' = IF pool.freeList = NoSlot THEN Append(heap, 0) ELSE heap
    /\ Reuse
    /\ UNCHANGED validUse

Leaky_deallocate(ptr) ==
    /\ pool # NoObject
    /\ plast.frees < MaxCalls
    /\ pool' = [pool EXCEPT !.next[ptr] = pool.freeList, !.freeList = ptr]
    /\ outstanding' = outstanding \ {ptr}
    /\ validUse' = (validUse /\ ptr \in outstanding)
    /\ plast' = PoolCall("deallocate", ptr, TRUE, ptr \in outstanding, FALSE)
    /\ GiveBack
    /\ UNCHANGED heap

\* a destructor that releases the chunks of the slots it finds
Leaky_destroy_releasing ==
    /\ pool # NoObject
    /\ pool' = NoObject
    /\ heap' = [c \in DOMAIN heap |->
                  IF \E b \in Blocks(pool) : b[1] = c THEN heap[c] + 1 ELSE heap[c]]
    /\ plast' = PoolCall("destroy", NoSlot, TRUE, FALSE, FALSE)
    /\ UNCHANGED <<outstanding, validUse, freed>>

\* ~LeakyPoolAllocator(): the body is empty
Leaky_destroy ==
    /\ pool # NoObject
    /\ pool' = NoObject
    /\ heap' = heap
    /\ plast' = PoolCall("destroy", NoSlot, TRUE, FALSE, FALSE)
    /\ UNCHANGED <<outstanding, validUse, freed>>

\* the chunks the object has created
ChunksCreated(p) == {b[1] : b \in Blocks(p)}

InitLeaky ==
    /\ pool = LeakyPoolAllocator
    /\ outstanding = {}
    /\ validUse = TRUE
    /\ plast = NoPoolCall
    /\ freed = <<>>
    /\ heap = <<0>>
    /\ arena = NoObject
    /\ stack = <<>>
    /\ state = <<>>
    /\ last = NoCall
    /\ granted = <<>>
    /\ held = NoMarker
    /\ scen = 0
    /\ nest = NoMarks
    /\ handles = <<>>

LeakyAllocate == Leaky_allocate /\ UNCHANGED bumpVars

\* deallocate has no null check; the client passes slots of the pool, also
\* ones that are not handed out
LeakyDeallocate ==
    /\ pool # NoObject
    /\ \E ptr \in Blocks(pool) : Leaky_deallocate(ptr)
    /\ UNCHANGED bumpVars

LeakyDestroy == Leaky_destroy /\ UNCHANGED bumpVars

NextLeaky ==
    \/ LeakyAllocate
    \/ LeakyDeallocate
    \/ LeakyDestroy

SpecLeaky == InitLeaky /\ [][NextLeaky]_vars

----------------------------------------------------------------------------
(* A fixed pool and its client *)

IsSimple == "PoolSize" \in DOMAIN pool /\ "class" \notin DOMAIN pool
IsFixed == "MaxObjects" \in DOMAIN pool
IsV2 == "class" \in DOMAIN pool /\ pool.class = "v2"
IsTest == "class" \in DOMAIN pool /\ pool.class = "test"

\* the numbers of objects a caller asks for
Ns == {0, 1, 2}

\* the address one past the end of the pool's array
PastEnd(p) == <<1, p.PoolSize>>

InitFixed ==
    /\ \E n \in 1 .. MaxPoolSize :
         \/ pool = FixedPoolAllocator(n)
         \/ pool = SimplePoolAllocator(n)
    /\ outstanding = {}
    /\ validUse = TRUE
    /\ plast = NoPoolCall
    /\ freed = <<>>
    /\ heap = <<>>
    /\ arena = NoObject
    /\ stack = <<>>
    /\ state = <<>>
    /\ last = NoCall
    /\ granted = <<>>
    /\ held = NoMarker
    /\ scen = 0
    /\ nest = NoMarks
    /\ handles = <<>>

FixedAllocate == IsFixed /\ Fixed_allocate /\ UNCHANGED bumpVars

FixedDeallocate ==
    /\ IsFixed
    /\ \E ptr \in Blocks(pool) : Fixed_deallocate(ptr)
    /\ UNCHANGED bumpVars

SimpleAllocate == IsSimple /\ Simple_allocate /\ UNCHANGED bumpVars

SimpleDeallocate ==
    /\ IsSimple
    /\ \E p \in Blocks(pool) \cup {NoSlot, Outside, PastEnd(pool)} :
         Simple_deallocate(p)
    /\ UNCHANGED bumpVars

NextFixed ==
    \/ FixedAllocate
    \/ FixedDeallocate
    \/ SimpleAllocate
    \/ SimpleDeallocate

SpecFixed == InitFixed /\ [][NextFixed]_vars

----------------------------------------------------------------------------
(* A pool with the allocator interface and its client *)

InitSingle ==
    /\ \E n \in 1 .. MaxPoolSize :
         \/ pool = SimplePoolAllocator(n)
         \/ pool = PoolAllocatorV2(n)
         \/ pool = PoolAllocatorTest(n)
    /\ outstanding = {}
    /\ validUse = TRUE
    /\ plast = NoPoolCall
    /\ freed = <<>>
    /\ heap = <<>>
    /\ arena = NoObject
    /\ stack = <<>>
    /\ state = <<>>
    /\ last = NoCall
    /\ granted = <<>>
    /\ held = NoMarker
    /\ scen = 0
    /\ nest = NoMarks
    /\ handles = <<>>

\* the calls a client makes: one object and any pointer, or another number of
\* objects and the first block
DeallocateArgs(pointers) ==
    {<<p, 1>> : p \in pointers} \cup {<<<<1, 0>>, n>> : n \in Ns \ {1}}

V2Allocate ==
    /\ IsV2
    /\ \E n \in Ns : PoolV2_allocate(n)
    /\ UNCHANGED bumpVars

V2Deallocate ==
    /\ IsV2
    /\ \E a \in DeallocateArgs(Blocks(pool) \cup {NoSlot, PastEnd(pool)}) :
         PoolV2_deallocate(a[1], a[2])
    /\ UNCHANGED bumpVars

TestAllocate ==
    /\ IsTest
    /\ \E n \in Ns : PoolTest_allocate(n)
    /\ UNCHANGED bumpVars

TestDeallocate ==
    /\ IsTest
    /\ \E a \in DeallocateArgs(Blocks(pool) \cup {NoSlot}) :
         PoolTest_deallocate(a[1], a[2])
    /\ UNCHANGED bumpVars

NextSingle ==
    \/ SimpleAllocate
    \/ SimpleDeallocate
    \/ V2Allocate
    \/ V2Deallocate
    \/ TestAllocate
    \/ TestDeallocate

SpecSingle == InitSingle /\ [][NextSingle]_vars

----------------------------------------------------------------------------
(* A pool that keeps statistics and its client: SimplePoolAllocator, the       *)
(* PoolAllocator of pooling-allocator-v2.cpp, or the growable PoolAllocator    *)
(* of arena-vs-pool.cpp                                                        *)

InitStats ==
    /\ \/ \E PoolSize \in 1 .. MaxPoolSize :
            pool \in {SimplePoolAllocator(PoolSize), PoolAllocatorV2(PoolSize)}
       \/ \E objectsPerChunk \in 1 .. MaxObjectsPerChunk :
            pool = PoolAllocator(objectsPerChunk)
    /\ outstanding = {}
    /\ validUse = TRUE
    /\ plast = NoPoolCall
    /\ freed = <<>>
    /\ heap = <<0>>
    /\ arena = NoObject
    /\ stack = <<>>
    /\ state = <<>>
    /\ last = NoCall
    /\ granted = <<>>
    /\ held = NoMarker
    /\ scen = 0
    /\ nest = NoMarks
    /\ handles = <<>>

NextStats ==
    \/ SimpleAllocate
    \/ SimpleDeallocate
    \/ V2Allocate
    \/ V2Deallocate
    \/ VectorAllocate
    \/ VectorDeallocate

SpecStats == InitStats /\ [][NextStats]_vars

----------------------------------------------------------------------------
(* PoolAllocator<T> of pooling-allocator.cpp: one buffer of poolSize_ blocks   *)
(* and a std::list of the free blocks.  Block i of buffer b is <<b, i>>.       *)

\* allocatePool() called by the constructor, b being the buffer operator new
\* returns
ListPoolAllocator(poolSize, b) ==
    [poolSize_ |-> poolSize,
     poolStart_ |-> b,
     freeList_ |-> [i \in 1 .. poolSize |-> <<b, i - 1>>]]

\* the blocks p, p + 1, .. p + n - 1
Run(p, n) == [i \in 1 .. n |-> <<p[1], p[2] + i - 1>>]

\* the blocks between poolStart_ and poolEnd_
PoolBlocks(o) == {<<o.poolStart_, i>> : i \in 0 .. o.poolSize_ - 1}

availableBlocks(o) == Len(o.freeList_)

\* allocate(n): the front block is the result, n entries leave the list
ListPool_allocate(o, n) ==
    IF o.freeList_ = <<>> \/ n > availableBlocks(o)
    THEN \* throw std::bad_alloc()
         [ok |-> FALSE, result |-> NoSlot, object |-> o]
    ELSE [ok |-> TRUE, result |-> Head(o.freeList_),
          object |-> [o EXCEPT !.freeList_ = SubSeq(o.freeList_, n + 1, Len(o.freeList_))]]

ListPool_deallocate(o, p, n) == [o EXCEPT !.freeList_ = o.freeList_ \o Run(p, n)]

\* clearPool() called by the destructor; the caller records the release
ListPool_clearPool(o) == [o EXCEPT !.freeList_ = <<>>]

\* bool operator==(const PoolAllocator &) const { return true; }
ListPool_equal(a, b) == TRUE

\* the blocks of the allocations handed out and not given back; an allocation
\* is <<p, n>>
Claimed(allocations) == UNION {{Run(a[1], a[2])[i] : i \in 1 .. a[2]} : a \in allocations}

----------------------------------------------------------------------------
(* One PoolAllocator<T> of pooling-allocator.cpp and its client, which gives   *)
(* back what it was given, with the same n                                     *)

IsList == pool # NoObject /\ "freeList_" \in DOMAIN pool

InitListPool ==
    /\ \E poolSize \in 1 .. MaxPoolSize : pool = ListPoolAllocator(poolSize, 1)
    /\ outstanding = {}
    /\ validUse = TRUE
    /\ plast = NoPoolCall
    /\ freed = <<>>
    /\ heap = <<0>>
    /\ arena = NoObject
    /\ stack = <<>>
    /\ state = <<>>
    /\ last = NoCall
    /\ granted = <<>>
    /\ held = NoMarker
    /\ scen = 0
    /\ nest = NoMarks
    /\ handles = <<>>

ListAllocate ==
    /\ IsList
    /\ plast.allocs < MaxCalls
    /\ \E n \in Ns :
         LET r == ListPool_allocate(pool, n)
         IN /\ pool' = r.object
            /\ outstanding' = IF r.ok THEN outstanding \cup {<<r.result, n>>}
                               ELSE outstanding
            /\ plast' = PoolCallN("allocate", r.result, r.ok,
                                  r.ok /\ r.result \in Claimed(outstanding), n)
    /\ UNCHANGED <<validUse, freed, heap>>
    /\ UNCHANGED bumpVars

ListDeallocate ==
    /\ IsList
    /\ \E a \in outstanding :
         /\ pool' = ListPool_deallocate(pool, a[1], a[2])
         /\ outstanding' = outstanding \ {a}
         /\ plast' = PoolCallN("deallocate", a[1], TRUE, TRUE, a[2])
    /\ UNCHANGED <<validUse, freed, heap>>
    /\ UNCHANGED bumpVars

NextListPool ==
    \/ ListAllocate
    \/ ListDeallocate

SpecListPool == InitListPool /\ [][NextListPool]_vars

----------------------------------------------------------------------------
(* A program that constructs, copies and destroys PoolAllocator<T> objects of *)
(* pooling-allocator.cpp and allocates through them.  An object of handles is *)
(* the allocator's fields and live, which tells whether the object exists.    *)

ListObject(o) ==
    [poolSize_ |-> o.poolSize_, poolStart_ |-> o.poolStart_,
     freeList_ |-> o.freeList_, live |-> TRUE]

InitListCopies ==
    /\ handles = <<>>
    /\ heap = <<>>
    /\ pool = NoObject
    /\ outstanding = {}
    /\ validUse = TRUE
    /\ plast = NoPoolCall
    /\ freed = <<>>
    /\ arena = NoObject
    /\ stack = <<>>
    /\ state = <<>>
    /\ last = NoCall
    /\ granted = <<>>
    /\ held = NoMarker
    /\ scen = 0
    /\ nest = NoMarks

ListFrame ==
    /\ UNCHANGED <<pool, validUse, freed>>
    /\ UNCHANGED <<arena, stack, state, last, granted, held, scen, nest>>

\* PoolAllocator(size_type poolSize)
ListCopiesConstruct ==
    /\ Len(handles) < MaxHandles
    /\ \E poolSize \in {2} :
         handles' = Append(handles,
                           ListObject(ListPoolAllocator(poolSize, Len(heap) + 1)))
    /\ heap' = Append(heap, 0)
    /\ plast' = PoolCallN("construct", <<Len(heap) + 1, 0>>, TRUE, FALSE, 0)
    /\ UNCHANGED outstanding
    /\ ListFrame

\* the implicitly defined copy constructor: a member-wise copy
ListCopiesCopy ==
    /\ Len(handles) < MaxHandles
    /\ \E other \in Live :
         /\ handles' = Append(handles, handles[other])
         /\ plast' = PoolCallN("copy", <<handles[other].poolStart_, 0>>, TRUE, FALSE, 0)
    /\ UNCHANGED <<heap, outstanding>>
    /\ ListFrame

\* ~PoolAllocator(): clearPool() passes poolStart_ to operator delete
ListCopiesDestroy ==
    /\ \E this \in Live :
         /\ handles' = [handles EXCEPT
                          ![this] = [ListObject(ListPool_clearPool(handles[this]))
                                       EXCEPT !.live = FALSE]]
         /\ heap' = [heap EXCEPT ![handles[this].poolStart_] = @ + 1]
         /\ plast' = PoolCallN("destroy", <<handles[this].poolStart_, 0>>, TRUE, FALSE, 0)
    /\ UNCHANGED outstanding
    /\ ListFrame

\* the client holds at most MaxAllocs allocations at a time
ListCopiesAllocate ==
    /\ plast.allocs < MaxCalls
    /\ Cardinality(outstanding) < MaxAllocs
    /\ \E this \in Live, n \in {1} :
         LET r == ListPool_allocate(handles[this], n)
         IN /\ handles' = [handles EXCEPT ![this] = ListObject(r.object)]
            /\ outstanding' = IF r.ok THEN outstanding \cup {<<r.result, n>>}
                               ELSE outstanding
            /\ plast' = PoolCallN("allocate", r.result, r.ok,
                                  r.ok /\ r.result \in Claimed(outstanding), n)
    /\ UNCHANGED heap
    /\ ListFrame

\* the client gives an allocation back through any allocator that exists: all
\* compare equal
ListCopiesDeallocate ==
    /\ \E this \in Live, a \in outstanding :
         /\ handles' = [handles EXCEPT
                          ![this] = ListObject(ListPool_deallocate(handles[this], a[1], a[2]))]
         /\ outstanding' = outstanding \ {a}
         /\ plast' = PoolCallN("deallocate", a[1], TRUE, TRUE, a[2])
    /\ UNCHANGED heap
    /\ ListFrame

NextListCopies ==
    \/ ListCopiesConstruct
    \/ ListCopiesCopy
    \/ ListCopiesDestroy
    \/ ListCopiesAllocate
    \/ ListCopiesDeallocate

SpecListCopies == InitListCopies /\ [][NextListCopies]_vars

----------------------------------------------------------------------------
(* A program that copies and assigns fixed pools with the allocator interface *)
(* and allocates through them: SimplePoolAllocator of simple-pool-allocator   *)
(* .cpp (class "simple") and PoolAllocator of pooling-allocator-v2.cpp (class *)
(* "v2").  The object with id h holds the array pool_ whose slot i is         *)
(* <<h, i>>; next[i] is the link stored in slot i of its own array.           *)

Classes == {"simple", "v2"}

\* initialize_pool() on the array of the object with id h
InitializedPool(class, PoolSize, h) ==
    [class |-> class,
     free_head_ |-> <<h, 0>>,
     next |-> [i \in 0 .. PoolSize - 1 |->
                 IF i < PoolSize - 1 THEN <<h, i + 1>> ELSE NoSlot],
     allocated_count_ |-> 0,
     PoolSize |-> PoolSize,
     live |-> TRUE]

\* the implicitly defined copy: pool_ is copied byte by byte and free_head_ and
\* allocated_count_ are copied as they are
MemberwiseCopy(other) ==
    [class |-> other.class,
     free_head_ |-> other.free_head_,
     next |-> other.next,
     allocated_count_ |-> other.allocated_count_,
     PoolSize |-> other.PoolSize,
     live |-> TRUE]

\* a copy constructor that copies the members of the source
CopyConstructed_memberwise(other, h) == MemberwiseCopy(other)

\* SimplePoolAllocator declares no copy constructor; PoolAllocator's copy and
\* rebind constructors call initialize_pool()
CopyConstructed(other, h) ==
    IF other.class = "v2"
    THEN InitializedPool("v2", other.PoolSize, h)
    ELSE MemberwiseCopy(other)

\* the link stored in the slot at address b, and the objects after a store
LinkAt(objs, b) == objs[b[1]].next[b[2]]
StoreLink(objs, b, v) == [objs EXCEPT ![b[1]].next[b[2]] = v]

\* the slots of the arrays that exist
AllSlots == {<<h, i>> : h \in DOMAIN handles, i \in 0 .. 1}

CopiesFrame ==
    /\ UNCHANGED <<pool, validUse, freed, heap>>
    /\ UNCHANGED <<arena, stack, state, last, granted, held, scen, nest>>

InitCopies ==
    /\ handles = <<>>
    /\ heap = <<>>
    /\ pool = NoObject
    /\ outstanding = {}
    /\ validUse = TRUE
    /\ plast = NoPoolCall
    /\ freed = <<>>
    /\ arena = NoObject
    /\ stack = <<>>
    /\ state = <<>>
    /\ last = NoCall
    /\ granted = <<>>
    /\ held = NoMarker
    /\ scen = 0
    /\ nest = NoMarks

CopiesConstruct ==
    /\ Len(handles) < MaxHandles
    /\ \E class \in Classes :
         handles' = Append(handles, InitializedPool(class, 2, Len(handles) + 1))
    /\ plast' = PoolCallN("construct", <<Len(handles) + 1, 0>>, TRUE, FALSE, 0)
    /\ UNCHANGED outstanding
    /\ CopiesFrame

CopiesCopy ==
    /\ Len(handles) < MaxHandles
    /\ \E other \in Live :
         handles' = Append(handles, CopyConstructed(handles[other], Len(handles) + 1))
    /\ plast' = PoolCallN("copy", <<Len(handles) + 1, 0>>, TRUE, FALSE, 0)
    /\ UNCHANGED outstanding
    /\ CopiesFrame

\* the implicitly defined copy assignment of both classes
CopiesAssign ==
    /\ \E this \in Live, other \in Live :
         /\ handles[this].class = handles[other].class
         /\ handles' = [handles EXCEPT ![this] = MemberwiseCopy(handles[other])]
         /\ plast' = PoolCallN("assign", <<this, 0>>, TRUE, FALSE, 0)
    /\ UNCHANGED outstanding
    /\ CopiesFrame

\* allocate(1) through the object this; the client makes MaxAllocs allocations
CopiesAllocate ==
    /\ plast.allocs < MaxAllocs
    /\ \E this \in Live :
         IF handles[this].free_head_ = NoSlot
         THEN \* throw std::bad_alloc()
              /\ handles' = handles
              /\ plast' = PoolCallN("allocate", NoSlot, FALSE, FALSE, 1)
              /\ UNCHANGED outstanding
         ELSE LET node == handles[this].free_head_
              IN /\ \E nxt \in IF LinkAt(handles, node) = Garbage
                                THEN AllSlots \cup {NoSlot}
                                ELSE {LinkAt(handles, node)} :
                      handles' = StoreLink(
                                   [handles EXCEPT
                                      ![this].free_head_ = nxt,
                                      ![this].allocated_count_ =
                                          Add(handles[this].allocated_count_, 1)],
                                   node, Garbage)
                 /\ outstanding' = outstanding \cup {node}
                 /\ plast' = PoolCallN("allocate", node, TRUE, node \in outstanding, 1)
    /\ CopiesFrame

\* deallocate(p, 1) through the object this, p being a block handed out
CopiesDeallocate ==
    /\ plast.frees < MaxAllocs
    /\ \E this \in Live, p \in outstanding :
         IF p[1] # this
         THEN \* "Warning: Pointer not from this pool!", return
              /\ handles' = handles
              /\ plast' = PoolCallN("deallocate", p, FALSE, TRUE, 1)
              /\ UNCHANGED outstanding
         ELSE /\ handles' = [StoreLink(handles, p, handles[this].free_head_) EXCEPT
                               ![this].free_head_ = p,
                               ![this].allocated_count_ =
                                   Sub(handles[this].allocated_count_, 1)]
              /\ outstanding' = outstanding \ {p}
              /\ plast' = PoolCallN("deallocate", p, TRUE, TRUE, 1)
    /\ CopiesFrame

NextCopies ==
    \/ CopiesConstruct
    \/ CopiesCopy
    \/ CopiesAssign
    \/ CopiesAllocate
    \/ CopiesDeallocate

SpecCopies == InitCopies /\ [][NextCopies]_vars

\* bool operator==(const SimplePoolAllocator& other) const: this == &other
FixedPool_equal(this, other) == this = other

\* the array the next allocate of the object h takes its block from
DrawsFrom(h) ==
    IF handles[h].free_head_ = NoSlot THEN h ELSE handles[h].free_head_[1]

----------------------------------------------------------------------------
(* A program that constructs and copies the fixed pools that declare their    *)
(* copy and rebind constructors, PoolAllocator of pooling-allocator-v2.cpp    *)
(* (class "v2") and of pool-test.cpp (class "test"), and allocates through    *)
(* every object.  Slot i of the array pool_ of the object h is <<h, i>>.      *)

OwnSizes == {1, 2}

\* PoolAllocator() of pool-test.cpp on the array of the object with id h; the
\* class has no allocated_count_
PoolTestInitialized(PoolSize, h) ==
    [class |-> "test",
     free_head_ |-> <<h, 0>>,
     next |-> [i \in 0 .. PoolSize - 1 |->
                 IF i < PoolSize - 1 THEN <<h, i + 1>> ELSE NoSlot],
     PoolSize |-> PoolSize,
     live |-> TRUE]

\* PoolAllocator(const PoolAllocator&) : PoolAllocator() {} and the rebind
\* constructor, which delegates in the same way
PoolTest_copy(other, h) == PoolTestInitialized(other.PoolSize, h)

\* the slots of the array pool_ of the object h
OwnSlots(objs, h) == {<<h, i>> : i \in 0 .. objs[h].PoolSize - 1}

\* ++allocated_count_ and --allocated_count_, where the class has the member
Counted(o, up) ==
    IF "allocated_count_" \in DOMAIN o
    THEN [o EXCEPT !.allocated_count_ = IF up THEN Add(@, 1) ELSE Sub(@, 1)]
    ELSE o

\* the slots visited from b along the links, at most n of them; a link that
\* is no slot of any array ends the walk and is listed
RECURSIVE Chain(_, _, _)
Chain(objs, b, n) ==
    IF b = NoSlot \/ n = 0 THEN <<>>
    ELSE IF b[1] \notin DOMAIN objs \/ b \notin OwnSlots(objs, b[1]) THEN <<b>>
    ELSE <<b>> \o Chain(objs, LinkAt(objs, b), n - 1)

\* the free list of the object h
FreeChain(objs, h) == Chain(objs, objs[h].free_head_, 2 * objs[h].PoolSize + 1)

InitOwn == InitCopies

OwnConstruct ==
    /\ Len(handles) < MaxHandles
    /\ \E PoolSize \in OwnSizes :
         \/ handles' = Append(handles,
                              InitializedPool("v2", PoolSize, Len(handles) + 1))
         \/ handles' = Append(handles,
                              PoolTestInitialized(PoolSize, Len(handles) + 1))
    /\ plast' = PoolCallN("construct", <<Len(handles) + 1, 0>>, TRUE, FALSE, 0)
    /\ UNCHANGED outstanding
    /\ CopiesFrame

\* PoolAllocator b(a) and PoolAllocator<U, PoolSize> b(a); plast.ptr names a
OwnCopy ==
    /\ Len(handles) < MaxHandles
    /\ \E other \in Live, op \in {"copy", "rebind"} :
         /\ handles' = Append(handles,
                              IF handles[other].class = "test"
                              THEN PoolTest_copy(handles[other], Len(handles) + 1)
                              ELSE CopyConstructed(handles[other], Len(handles) + 1))
         /\ plast' = PoolCallN(op, <<other, 0>>, TRUE, FALSE, 0)
    /\ UNCHANGED outstanding
    /\ CopiesFrame

\* allocate(1) through the object this; the client makes MaxAllocs allocations
OwnAllocate ==
    /\ plast.allocs < MaxAllocs
    /\ \E this \in Live :
         IF handles[this].free_head_ = NoSlot
         THEN \* throw std::bad_alloc()
              /\ handles' = handles
              /\ plast' = PoolCallN("allocate", NoSlot, FALSE, FALSE, 1)
              /\ UNCHANGED outstanding
         ELSE LET node == handles[this].free_head_
              IN /\ \E nxt \in IF LinkAt(handles, node) = Garbage
                                THEN AllSlots \cup {NoSlot}
                                ELSE {LinkAt(handles, node)} :
                      handles' = StoreLink(
                                   [handles EXCEPT
                                      ![this] = Counted([@ EXCEPT !.free_head_ = nxt],
                                                        TRUE)],
                                   node, Garbage)
                 /\ outstanding' = outstanding \cup {node}
                 /\ plast' = PoolCallN("allocate", node, TRUE, node \in outstanding, 1)
    /\ CopiesFrame

\* deallocate(p, 1) through the object this: p is null or a slot handed out;
\* the class "test" has no bounds check and is given slots of its own only
OwnDeallocate ==
    /\ plast.frees < MaxAllocs
    /\ \E this \in Live, p \in outstanding \cup {NoSlot} :
         /\ (handles[this].class = "test" /\ p # NoSlot) => p[1] = this
         /\ IF p = NoSlot \/ p[1] # this
            THEN \* return
                 /\ handles' = handles
                 /\ plast' = PoolCallN("deallocate", p, FALSE, p \in outstanding, 1)
                 /\ UNCHANGED outstanding
            ELSE /\ handles' = [StoreLink(handles, p, handles[this].free_head_) EXCEPT
                                  ![this] = Counted([@ EXCEPT !.free_head_ = p],
                                                    FALSE)]
                 /\ outstanding' = outstanding \ {p}
                 /\ plast' = PoolCallN("deallocate", p, TRUE, TRUE, 1)
    /\ CopiesFrame

NextOwn ==
    \/ OwnConstruct
    \/ OwnCopy
    \/ OwnAllocate
    \/ OwnDeallocate

SpecOwn == InitOwn /\ [][NextOwn]_vars

----------------------------------------------------------------------------
(* The free-list construction loop and the link stores at the level of bytes. *)
(* Lengths are in units of 4 bytes.  In the layout "slot" (SimplePoolAllocator *)
(* and the PoolAllocator of pool-test.cpp and pooling-allocator-v2.cpp) the    *)
(* slots are sizeof(T) apart and the link is stored at the start of the slot;  *)
(* in the layout "block" (struct Block of arena-vs-pool.cpp, pool-vs-standard  *)
(* .cpp and pool-allocator-comparisons.cpp) the slots are sizeof(Block) apart  *)
(* and the link is the member next behind data.  An address is <<1, b>>, the   *)
(* byte b counted from the start of the array.                                 *)

\* sizeof(FreeNode*), sizeof(Block*)
PointerSize == 2

\* sizeof(T): int, double, TestObject
SlotSizes == {1, 2, 4}

Layouts == {"slot", "block"}

\* offsetof(Block, next) and sizeof(Block); 0 and sizeof(T) in the layout "slot"
LinkOffset(p) == IF p.layout = "block" THEN RoundUp(p.SlotSize, PointerSize) ELSE 0
Stride(p) == IF p.layout = "block" THEN LinkOffset(p) + PointerSize ELSE p.SlotSize

\* sizeof(pool_), the size of the chunk
PoolBytes(p) == p.N * Stride(p)

\* a byte that holds no part of a link
RawByte == [v |-> Garbage, k |-> PointerSize]

NoWrite == [slot |-> 0, at |-> 0, len |-> 0]

\* the object before the first statement of the construction
LinkPool(layout, SlotSize, N) ==
    [class |-> "links", layout |-> layout, SlotSize |-> SlotSize, N |-> N,
     i |-> 0, current |-> 0, pc |-> "loop",
     mem |-> [b \in 0 .. N * (IF layout = "block"
                              THEN RoundUp(SlotSize, PointerSize) + PointerSize
                              ELSE SlotSize) - 1 |-> RawByte],
     free_head_ |-> NoSlot, write |-> NoWrite, links |-> 0]

\* reinterpret_cast<FreeNode*>(slot)->next = v: PointerSize bytes from the link's
\* address on; bytes outside the array are not part of mem
StoreAt(p, slot, v) ==
    LET at == slot + LinkOffset(p)
    IN [p EXCEPT !.mem = [b \in DOMAIN p.mem |->
                            IF at <= b /\ b < at + PointerSize
                            THEN [v |-> v, k |-> b - at] ELSE p.mem[b]],
                 !.write = [slot |-> slot, at |-> at, len |-> PointerSize],
                 !.links = p.links + 1]

\* the addresses of the slots
SlotAddrs(p) == {<<1, k * Stride(p)>> : k \in 0 .. p.N - 1}

\* the values that reading the link of the slot can give: the pointer stored
\* there if its bytes are intact, any pointer otherwise
LoadAt(p, slot) ==
    LET at == slot + LinkOffset(p)
    IN IF /\ at + PointerSize - 1 \in DOMAIN p.mem
          /\ \A k \in 0 .. PointerSize - 1 :
               p.mem[at + k] = [v |-> p.mem[at].v, k |-> k]
       THEN {p.mem[at].v}
       ELSE SlotAddrs(p) \cup {NoSlot}

\* for (size_t i = 0; i < N - 1; ++i) { link; current += sizeof(T); }
Link_loop ==
    /\ pool.pc = "loop"
    /\ pool.i < Sub(pool.N, 1)
    /\ pool' = [StoreAt(pool, pool.current, <<1, pool.current + Stride(pool)>>)
                  EXCEPT !.i = Add(pool.i, 1),
                         !.current = pool.current + Stride(pool)]
    /\ plast' = PoolCallN("link", <<1, pool.current>>, TRUE, FALSE, 0)
    /\ UNCHANGED <<outstanding, validUse, freed, heap>>

\* the statements behind the loop: the last link and the head of the list
Link_last ==
    /\ pool.pc = "loop"
    /\ ~(pool.i < Sub(pool.N, 1))
    /\ pool' = [StoreAt(pool, Sub(pool.N, 1) * Stride(pool), NoSlot)
                  EXCEPT !.free_head_ = <<1, 0>>,
                         !.pc = "ready"]
    /\ plast' = PoolCallN("link", <<1, Sub(pool.N, 1) * Stride(pool)>>, TRUE, FALSE, 0)
    /\ UNCHANGED <<outstanding, validUse, freed, heap>>

\* allocate: pop the head; the bytes of T belong to the caller from then on
Link_allocate ==
    /\ pool.pc = "ready"
    /\ plast.allocs < MaxAllocs
    /\ IF pool.free_head_ = NoSlot
       THEN /\ pool' = [pool EXCEPT !.write = NoWrite]
            /\ plast' = PoolCallN("allocate", NoSlot, FALSE, FALSE, 1)
            /\ UNCHANGED outstanding
       ELSE LET node == pool.free_head_
            IN /\ \E nxt \in LoadAt(pool, node[2]) :
                    pool' = [pool EXCEPT
                               !.free_head_ = nxt,
                               !.write = NoWrite,
                               !.mem = [b \in DOMAIN pool.mem |->
                                          IF node[2] <= b /\ b < node[2] + pool.SlotSize
                                          THEN RawByte ELSE pool.mem[b]]]
               /\ outstanding' = outstanding \cup {node}
               /\ plast' = PoolCallN("allocate", node, TRUE, node \in outstanding, 1)
    /\ UNCHANGED <<validUse, freed, heap>>

\* deallocate(p) of a slot handed out or of null
Link_deallocate(p) ==
    /\ pool.pc = "ready"
    /\ plast.frees < MaxAllocs
    /\ IF p = NoSlot \/ (pool.layout = "slot" /\ p[2] >= PoolBytes(pool))
       THEN /\ pool' = [pool EXCEPT !.write = NoWrite]
            /\ plast' = PoolCallN("deallocate", p, FALSE, p \in outstanding, 1)
            /\ UNCHANGED outstanding
       ELSE /\ pool' = [StoreAt(pool, p[2], pool.free_head_) EXCEPT !.free_head_ = p]
            /\ outstanding' = outstanding \ {p}
            /\ plast' = PoolCallN("deallocate", p, TRUE, TRUE, 1)
    /\ UNCHANGED <<validUse, freed, heap>>

\* the block counts a pool is built with
BlockCounts == 0 .. MaxPoolSize

InitLinks ==
    /\ \E layout \in Layouts, SlotSize \in SlotSizes, N \in BlockCounts :
         pool = LinkPool(layout, SlotSize, N)
    /\ outstanding = {}
    /\ validUse = TRUE
    /\ plast = NoPoolCall
    /\ freed = <<>>
    /\ heap = <<0>>
    /\ arena = NoObject
    /\ stack = <<>>
    /\ state = <<>>
    /\ last = NoCall
    /\ granted = <<>>
    /\ held = NoMarker
    /\ scen = 0
    /\ nest = NoMarks
    /\ handles = <<>>

LinkLoop == Link_loop /\ UNCHANGED bumpVars

LinkLast == Link_last /\ UNCHANGED bumpVars

LinkAllocate == Link_allocate /\ UNCHANGED bumpVars

LinkDeallocate ==
    /\ \E p \in outstanding \cup {NoSlot} : Link_deallocate(p)
    /\ UNCHANGED bumpVars

NextLinks ==
    \/ LinkLoop
    \/ LinkLast
    \/ LinkAllocate
    \/ LinkDeallocate

SpecLinks == InitLinks /\ [][NextLinks]_vars

----------------------------------------------------------------------------
(* LinearAllocator of pool-vs-standard.cpp and a client that makes typed      *)
(* allocations of mixed element sizes.  The object is kept in arena; a type   *)
(* is <<sizeof(T), alignof(T)>>.                                              *)

TheLinear == <<"linear", 0>>

LinearCounts == {1, 3, 5, Mod - 1}

\* explicit LinearAllocator(size_t size)
LinearAllocator(size) == [size |-> size, offset |-> 0, class |-> "linear"]

\* template <typename T> T *allocate(size_t count = 1); last.marker is count
Linear_allocate(T, count) ==
    /\ arena # NoObject
    /\ LET bytes == Mul(T[1], count)
       IN IF Add(arena.offset, bytes) > arena.size
          THEN \* return nullptr
               /\ arena' = arena
               /\ last' = Call(TheLinear, "allocate", bytes, T[2], count,
                               arena.offset, FALSE, 0)
          ELSE /\ arena' = [arena EXCEPT !.offset = Add(arena.offset, bytes)]
               /\ last' = Call(TheLinear, "allocate", bytes, T[2], count,
                               arena.offset, TRUE, arena.offset)
    /\ UNCHANGED <<stack, state>>

\* void reset() { offset = 0; }
Linear_reset ==
    /\ arena # NoObject
    /\ arena' = [arena EXCEPT !.offset = 0]
    /\ last' = Call(TheLinear, "reset", 0, 0, 0, arena.offset, TRUE, 0)
    /\ UNCHANGED <<stack, state>>

InitLinear ==
    /\ \E size \in Capacities : arena = LinearAllocator(size)
    /\ stack = <<>>
    /\ state = <<>>
    /\ last = NoCall
    /\ granted = <<>>
    /\ held = NoMarker
    /\ scen = 0
    /\ nest = NoMarks
    /\ handles = <<>>
    /\ pool = NoObject
    /\ outstanding = {}
    /\ validUse = TRUE
    /\ plast = NoPoolCall
    /\ freed = <<>>
    /\ heap = <<>>

LinearAllocate ==
    /\ \E T \in Types, count \in LinearCounts : Linear_allocate(T, count)
    /\ UNCHANGED <<granted, held, scen, nest, handles>>
    /\ UNCHANGED poolVars

LinearReset ==
    /\ Linear_reset
    /\ UNCHANGED <<granted, held, scen, nest, handles>>
    /\ UNCHANGED poolVars

NextLinear ==
    \/ LinearAllocate
    \/ LinearReset

SpecLinear == InitLinear /\ [][NextLinear]_vars

\* C33: with size_t arithmetic an allocate with a power-of-two alignment is
\* granted only if the unbounded value align_up(offset, alignment) + bytes is
\* at most the capacity; when offset + alignment - 1 or aligned_offset + bytes
\* wraps around, the call fails and leaves the offset alone; across the call
\* the offset neither decreases nor exceeds the capacity.
C33_NoGrantOnWraparound ==
    [][\A o \in Objects :
         (last'.op = "allocate" /\ last'.obj = o /\ IsPow2(last'.alignment))
           => LET exact == RoundUp(OffsetOf(o), last'.alignment) + last'.bytes
                  wraps == \/ OffsetOf(o) + last'.alignment - 1 >= Mod
                           \/ exact >= Mod
              IN /\ last'.ok => exact <= CapacityOf(o)
                 /\ wraps => (~last'.ok /\ OffsetOf(o)' = OffsetOf(o))
                 /\ OffsetOf(o)' >= OffsetOf(o)
                 /\ OffsetOf(o)' <= CapacityOf(o)]_vars

----------------------------------------------------------------------------
(* Properties of the growable pool *)

\* C1: while every deallocate was given a slot then handed out, with C chunks of
\* B slots and k slots outstanding, the free list holds exactly C*B - k distinct
\* slots and no slot twice, none of the outstanding slots is in it, and every
\* slot is either in the free list or handed out.
C1_PoolConservation ==
    validUse =>
      LET free == FreeList(pool)
          k == Cardinality(outstanding)
      IN /\ Len(free) = getChunkCount(pool) * pool.objectsPerChunk - k
         /\ Cardinality(Range(free)) = Len(free)
         /\ Range(free) \cap outstanding = {}
         /\ Range(free) \cup outstanding = Blocks(pool)
         /\ Cardinality(Blocks(pool)) = getChunkCount(pool) * pool.objectsPerChunk

\* C1 witness: the pool has grown, slots have been given back and taken again,
\* and some slots are handed out while others are free.
C1_Witness ==
    /\ validUse
    /\ getChunkCount(pool) >= 2
    /\ pool.totalDeallocated >= 2
    /\ pool.totalAllocated >= 4
    /\ outstanding # {}
    /\ pool.freeList # NoSlot

\* C15: deallocate(p) of a handed-out slot makes p the head of the free list;
\* the allocate that follows it at once returns p and creates no chunk; slots
\* given back in the order p1..pn are handed out again in the order pn..p1.
C15_LifoReuse ==
    [][/\ (plast'.op = "deallocate" /\ plast'.ptr \in outstanding)
            => pool'.freeList = plast'.ptr
       /\ (plast.op = "deallocate" /\ plast.live /\ plast'.op = "allocate")
            => /\ plast'.ptr = plast.ptr
               /\ ~plast'.grew
               /\ getChunkCount(pool') = getChunkCount(pool)
       /\ (plast'.op = "allocate" /\ freed # <<>>)
            => /\ plast'.ptr = freed[Len(freed)]
               /\ ~plast'.grew
               /\ getChunkCount(pool') = getChunkCount(pool)]_vars

\* C15 witness: three slots were given back one after the other and two of them
\* have been handed out again since, the last one given back first.
C15_Witness ==
    /\ plast.op = "allocate"
    /\ Len(freed) = 1
    /\ pool.totalDeallocated = 3
    /\ pool.totalAllocated = 5
    /\ Cardinality(outstanding) = 2

\* C16: allocate() of the growable pool always returns a slot: when the free list
\* is empty it creates exactly one chunk of objectsPerChunk slots and returns a
\* slot of that chunk, otherwise it creates none; the slot it returns is not
\* null and is not handed out at the time of the call.
C16_AllocateReturnsFreeSlot ==
    [][plast'.op = "allocate"
         => /\ plast'.ok
            /\ plast'.ptr # NoSlot
            /\ plast'.ptr \notin outstanding
            /\ pool.freeList = NoSlot
                 => /\ getChunkCount(pool') = getChunkCount(pool) + 1
                    /\ Cardinality(Blocks(pool') \ Blocks(pool)) = pool.objectsPerChunk
                    /\ plast'.ptr \in Blocks(pool') \ Blocks(pool)
            /\ pool.freeList # NoSlot
                 => /\ getChunkCount(pool') = getChunkCount(pool)
                    /\ Blocks(pool') = Blocks(pool)]_vars

\* C17: the number of chunks changes only in an allocate() called while the
\* free list is empty, which adds one chunk behind those already owned; no
\* other step adds, removes or releases a chunk, also when every slot of a
\* chunk has been given back.
C17_ChunksOnlyGrowWhenEmpty ==
    [][/\ getChunkCount(pool') >= getChunkCount(pool)
       /\ SubSeq(pool'.chunks, 1, getChunkCount(pool)) = pool.chunks
       /\ getChunkCount(pool') # getChunkCount(pool)
            => /\ plast'.op = "allocate"
               /\ pool.freeList = NoSlot
               /\ getChunkCount(pool') = getChunkCount(pool) + 1
       /\ \A c \in DOMAIN heap' : heap'[c] = 0]_vars

\* C17 witness: the pool has grown to three chunks and every slot has been given
\* back.
C17_Witness ==
    /\ validUse
    /\ getChunkCount(pool) = 3
    /\ outstanding = {}
    /\ Len(FreeList(pool)) = 3 * pool.objectsPerChunk
    /\ plast.op = "deallocate"

\* C20: a deallocate of a slot that is already in the free list does not put it
\* there a second time: no slot occurs twice in the free list and no allocate
\* returns a slot that is still handed out.
C20_NoDoubleInsert ==
    /\ Cardinality(Range(FreeList(pool))) = Len(FreeList(pool))
    /\ plast.op = "allocate" => ~plast.live

\* C18: while a chunk-tracking pool lives, the chunks it holds for release are
\* exactly the chunks obtained from the system, each once and none released;
\* after teardown every chunk ever obtained has been released exactly once,
\* whatever allocate / deallocate calls came before.
C18_TeardownReleasesEveryChunkOnce ==
    /\ pool # NoObject
         => /\ Range(OwnedChunks(pool)) = DOMAIN heap
            /\ Len(OwnedChunks(pool)) = Len(heap)
            /\ \A c \in DOMAIN heap : heap[c] = 0
    /\ pool = NoObject => \A c \in DOMAIN heap : heap[c] = 1

\* C18 witness: a pool that had grown to three chunks was torn down while slots
\* were handed out and others had been given back.
C18_Witness ==
    /\ pool = NoObject
    /\ plast.op = "destroy"
    /\ Len(heap) = 3
    /\ outstanding # {}
    /\ freed # <<>>

\* C19: a fixed pool of N slots, given back only slots it had handed out:
\* allocate succeeds exactly while fewer than N slots are handed out and then
\* returns a slot that is not handed out; with no deallocate so far the first N
\* calls succeed and the next fails; a failed call returns no slot, leaves the
\* pool as it was and obtains no storage; after exhaustion and one deallocate
\* of a handed-out slot the next allocate succeeds and the one after it fails.
C19_FixedPoolExhaustion ==
    [][(plast'.op = "allocate" /\ validUse)
         => LET N == CapacityOfPool(pool)
            IN /\ plast'.ok <=> Cardinality(outstanding) < N
               /\ plast.frees = 0 => (plast'.ok <=> plast.allocs < N)
               /\ plast'.ok => /\ plast'.ptr \in Blocks(pool)
                               /\ plast'.ptr \notin outstanding
                               /\ Cardinality(outstanding') = Cardinality(outstanding) + 1
               /\ ~plast'.ok => /\ plast'.ptr = NoSlot
                                /\ pool' = pool
                                /\ outstanding' = outstanding
                                /\ heap' = heap
               /\ Blocks(pool') = Blocks(pool)
               /\ (plast.op = "deallocate" /\ plast.ok
                      /\ Cardinality(outstanding) = N - 1) => plast'.ok
               /\ (plast.op = "allocate" /\ plast.ok
                      /\ Cardinality(outstanding) = N) => ~plast'.ok]_vars

\* C19 witness: all N slots were handed out, one was given back and handed out
\* again, and the allocate after that has failed.
C19_Witness ==
    /\ validUse
    /\ plast.op = "allocate" /\ ~plast.ok
    /\ plast.frees = 1
    /\ plast.allocs = CapacityOfPool(pool) + 1
    /\ Cardinality(outstanding) = CapacityOfPool(pool)
    /\ CapacityOfPool(pool) = MaxPoolSize

\* the smallest number of chunks of b slots that hold n slots
CeilDiv(n, b) == (n + b - 1) \div b

\* C27: the pool owns one chunk after construction and, while every deallocate
\* was given a handed-out slot, exactly max(1, ceil(P / B)) chunks, P being the
\* largest number of slots handed out at one time so far and B the slots per
\* chunk; with B = 2 three allocations without deallocate make 2 chunks.
C27_ChunkCountFollowsPeak ==
    /\ plast.op = "none" => getChunkCount(pool) = 1
    /\ validUse => getChunkCount(pool)
                     = Max(1, CeilDiv(plast.peak, pool.objectsPerChunk))
    /\ (pool.objectsPerChunk = 2 /\ plast.allocs = 3 /\ plast.frees = 0)
         => getChunkCount(pool) = 2

\* C27 witness: with two slots per chunk the third allocation has grown the pool
\* to two chunks, slots were given back since and handed out again.
C27_Witness ==
    /\ validUse
    /\ pool.objectsPerChunk = 2
    /\ plast.peak = 3
    /\ getChunkCount(pool) = 2
    /\ plast.frees >= 2
    /\ plast.allocs = 5

\* the new chunk's slots i .. n - 1 in index order
SlotsFrom(c, i, n) == [k \in 1 .. n - i |-> <<c, i + k - 1>>]

\* C28: allocateChunk links the new chunk's slots in index order, the last one
\* to the previous head, and makes slot 0 the head: applied to the pool in any
\* state it puts slots 0..B-1 in front of the free list as it was; an allocate
\* that grows returns slot 0 and leaves slots 1..B-1 in order at the front, and
\* every other allocate returns the head of the free list, so that the B
\* allocations after a growth return slots 0..B-1 in index order.
C28_ChunkPrependedInIndexOrder ==
    [][/\ validUse
            => LET q == allocateChunk(pool)
                   c == getChunkCount(pool) + 1
                   B == pool.objectsPerChunk
               IN /\ FreeList(q) = SlotsFrom(c, 0, B) \o FreeList(pool)
                  /\ q.freeList = <<c, 0>>
                  /\ q.next[<<c, B - 1>>] = pool.freeList
       /\ (plast'.op = "allocate" /\ plast'.grew)
            => LET c == getChunkCount(pool')
                   B == pool.objectsPerChunk
               IN /\ plast'.ptr = <<c, 0>>
                  /\ validUse => FreeList(pool') = SlotsFrom(c, 1, B) \o FreeList(pool)
       /\ (plast'.op = "allocate" /\ ~plast'.grew)
            => /\ plast'.ptr = pool.freeList
               /\ validUse => FreeList(pool') = Tail(FreeList(pool))
       /\ (plast.op = "allocate" /\ plast'.op = "allocate" /\ validUse
              /\ plast.ptr[1] = getChunkCount(pool)
              /\ plast.ptr[2] < pool.objectsPerChunk - 1
              /\ plast.peak = (getChunkCount(pool) - 1) * pool.objectsPerChunk
                                + plast.ptr[2] + 1
              /\ Cardinality(outstanding) = plast.peak)
            => plast'.ptr = <<plast.ptr[1], plast.ptr[2] + 1>>]_vars

\* C28 witness: the allocation after a growth has returned the second slot of
\* the new chunk, in a run where slots had been given back and handed out again
\* before.
C28_Witness ==
    /\ validUse
    /\ pool.objectsPerChunk = 2
    /\ plast.op = "allocate"
    /\ plast.ptr = <<2, 1>>
    /\ plast.peak = 4
    /\ Cardinality(outstanding) = 4
    /\ plast.frees >= 1

\* C21: the pools that check the pointer (SimplePoolAllocator, PoolAllocator of
\* pooling-allocator-v2.cpp) reject a deallocate of null and of an address
\* outside [pool_, pool_ + sizeof(pool_)), the end included: free_head_, the
\* links and allocated_count_ stay as they were.
C21_RejectsForeignPointer ==
    [][(/\ IsSimple \/ IsV2
        /\ plast'.op = "deallocate"
        /\ plast' # plast
        /\ plast'.ptr = NoSlot \/ plast'.ptr \notin Slots(pool.PoolSize))
           => /\ ~plast'.ok
              /\ pool'.free_head_ = pool.free_head_
              /\ pool'.next = pool.next
              /\ pool'.allocated_count_ = pool.allocated_count_
              /\ pool' = pool]_vars

\* C21 witness: a pool with blocks handed out and blocks free has just been
\* given the address one past its array, with n = 1.
C21_Witness ==
    /\ IsV2
    /\ plast.op = "deallocate"
    /\ plast.ptr = PastEnd(pool)
    /\ plast.n = 1
    /\ ~plast.ok
    /\ pool.allocated_count_ > 0
    /\ pool.free_head_ # NoSlot

\* C26: the single-object pools (pooling-allocator-v2.cpp, simple-pool-
\* allocator.cpp, pool-test.cpp) fail allocate(n) with std::bad_alloc and return
\* from deallocate(p, n) without effect when n is not 1, with the free list and
\* the allocated count unchanged, whatever the number of free slots.
C26_OnlySingleObjects ==
    [][(/\ IsV2 \/ IsTest
        /\ plast' # plast
        /\ plast'.n # 1)
           => /\ ~plast'.ok
              /\ plast'.op = "allocate" => plast'.ptr = NoSlot
              /\ pool' = pool
              /\ outstanding' = outstanding]_vars

\* C26 witness: allocate(2) has failed on a pool that had two free slots.
C26_Witness ==
    /\ IsV2
    /\ plast.op = "allocate"
    /\ plast.n = 2
    /\ ~plast.ok
    /\ pool.free_head_ # NoSlot
    /\ pool.next[pool.free_head_] \in Slots(pool.PoolSize)
    /\ pool.allocated_count_ = 1

\* the objects that refer to the StackState s
Referring(s) == {h \in Live : handles[h].state_ = s}

\* C22: for every sequence of construct, copy-construct, rebind-construct,
\* copy-assign and destroy of StackAllocator<T> objects, ref_count_ of each
\* StackState equals the number of existing objects that refer to it, no
\* existing object refers to a deleted state, and a state is deleted exactly
\* once, when the last object referring to it is destroyed or reassigned.
C22_RefCountIsHandleCount ==
    /\ \A s \in DOMAIN state :
         /\ heap[s] = 0 => state[s].ref_count_ = Cardinality(Referring(s))
         /\ heap[s] <= 1
         /\ heap[s] = 1 <=> Referring(s) = {}
    /\ \A h \in Live : heap[handles[h].state_] = 0

\* C22 witness: a state has lost its last object by assignment and has been
\* deleted, while the state assigned from is shared by two objects and every
\* object created so far still exists.
C22_Witness ==
    /\ last.op = "assign"
    /\ \E s \in DOMAIN state :
         /\ heap[s] = 1
         /\ Cardinality({h \in DOMAIN handles : ~handles[h].live}) = 0
    /\ \E t \in DOMAIN state : heap[t] = 0 /\ state[t].ref_count_ = 2

\* objects of one family point to one StackState, so that each reads the
\* offset and the capacity the others read
ViewsShareState ==
    \A h1 \in Live, h2 \in Live :
       handles[h1].family = handles[h2].family
          => /\ StackT_equal(h1, h2)
             /\ get_used_size(h1) = get_used_size(h2)
             /\ get_total_size(h1) = get_total_size(h2)

\* the offset an accepted allocate, free_to_marker or clear leaves is the one
\* every object of the family reads afterwards
ViewsObserveCalls ==
    \A h \in Live :
       /\ (last'.op = "allocate" /\ last'.ok)
             => get_used_size(h)' = Add(last'.start, last'.bytes)
       /\ (last'.op = "free_to_marker" /\ last'.ok)
             => get_used_size(h)' = last'.marker
       /\ last'.op = "clear" => get_used_size(h)' = 0
       /\ (last'.op \in {"allocate", "free_to_marker"} /\ ~last'.ok)
             => get_used_size(h)' = get_used_size(h)

\* the ranges returned through different objects since the last accepted
\* release do not overlap
ViewRangesDisjoint ==
    \A i \in 1 .. Len(granted) : \A j \in 1 .. i - 1 :
       granted[i].view # granted[j].view => Disjoint(granted[i], granted[j])

\* C30: all StackAllocator<T> objects obtained by copy or rebind from one
\* allocator work on one offset and one capacity: what allocate,
\* free_to_marker and clear do through one of them is what get_marker and
\* get_used_size of every other return, and ranges returned through different
\* objects with no release in between never overlap.
C30_ViewsShareOneStack ==
    [][ViewsShareState' /\ ViewsObserveCalls /\ ViewRangesDisjoint']_vars

\* C29: with every deallocate(p, n) matching an earlier allocate(n) that
\* returned p, a successful allocate(n) of the list pool returns p such that
\* the blocks p .. p + n - 1 all lie inside the pool, are exactly the n blocks
\* this call removed from the free list, and none of them belongs to an
\* allocation that is still handed out.
C29_AllocateReturnsItsBlocks ==
    [][(IsList /\ plast'.op = "allocate" /\ plast'.ok)
         => LET want == Claimed({<<plast'.ptr, plast'.n>>})
                removed == {pool.freeList_[i] : i \in 1 .. plast'.n}
            IN /\ want \subseteq PoolBlocks(pool)
               /\ want = removed
               /\ want \cap Claimed(outstanding) = {}]_vars

\* C23: the buffer of a PoolAllocator of pooling-allocator.cpp has one owner
\* and is released exactly once, for every sequence of construct, copy and
\* destroy (a temporary passed to a container is constructed, copied and
\* destroyed): no two existing objects hold the same poolStart_, no buffer is
\* released twice or while an object holds it, and no allocate or deallocate
\* goes to a released buffer.
C23_BufferOwnedAndReleasedOnce ==
    [][/\ \A a \in Live', b \in Live' :
            handles'[a].poolStart_ = handles'[b].poolStart_ => a = b
       /\ \A b \in DOMAIN heap' :
            /\ heap'[b] <= 1
            /\ heap'[b] = 1 <=> ~\E h \in Live' : handles'[h].poolStart_ = b
       /\ (plast'.op \in {"allocate", "deallocate"} /\ plast'.ok)
            => heap[plast'.ptr[1]] = 0]_vars

\* C25: two PoolAllocator objects of pooling-allocator.cpp compare equal
\* exactly when they hold the same buffer; two objects constructed
\* independently compare unequal.
C25_EqualIffSamePool ==
    \A a \in Live, b \in Live :
       ListPool_equal(handles[a], handles[b])
          <=> handles[a].poolStart_ = handles[b].poolStart_

\* C24: two fixed pools compare equal exactly when they draw from the same
\* backing storage, which for SimplePoolAllocator and PoolAllocator<T,
\* PoolSize> is the array of one and the same object, in every state reached
\* by copy, rebind and assignment; for StackAllocator<T> the storage is the
\* StackState.
C24_EqualIffSameStorage ==
    \A a \in Live, b \in Live :
       IF "state_" \in DOMAIN handles[a]
       THEN StackT_equal(a, b) <=> handles[a].family = handles[b].family
       ELSE FixedPool_equal(a, b) <=> DrawsFrom(a) = DrawsFrom(b)


\* the slots of the own array, in address order
OwnOrder(objs, h) == [k \in 1 .. objs[h].PoolSize |-> <<h, k - 1>>]

\* every free list holds slots of its own object's array only, each once, and
\* none that is handed out
OwnPools(objs, out) ==
    \A h \in DOMAIN objs :
      LET chain == FreeChain(objs, h)
      IN /\ Range(chain) \subseteq OwnSlots(objs, h)
         /\ Cardinality(Range(chain)) = Len(chain)
         /\ Range(chain) \cap out = {}

\* C31: a copy or rebind construction of a fixed PoolAllocator of
\* pooling-allocator-v2.cpp or pool-test.cpp, whatever the state of the source,
\* gives an object whose free list is the PoolSize slots of its own array and
\* whose allocated count is 0, leaves the source and every other object as it
\* was, and the new object compares unequal to the source; in every state
\* reached from then on each object's free list holds slots of its own array
\* only, so no slot is handed out by two objects.
C31_CopyHasOwnPool ==
    [][/\ plast'.op \in {"copy", "rebind"} =>
            LET c == Len(handles')
                a == plast'.ptr[1]
            IN /\ c = Len(handles) + 1
               /\ FreeChain(handles', c) = OwnOrder(handles', c)
               /\ handles'[c].PoolSize = handles[a].PoolSize
               /\ "allocated_count_" \in DOMAIN handles'[c] =>
                     allocated_count(handles'[c]) = 0
               /\ \A h \in DOMAIN handles : handles'[h] = handles[h]
               /\ ~FixedPool_equal(c, a)
               /\ OwnSlots(handles', c) \cap OwnSlots(handles', a) = {}
       /\ OwnPools(handles', outstanding')
       /\ plast'.op = "allocate" /\ plast'.ok => ~plast'.live]_vars

\* a copy was made of an object that has a slot handed out and an empty free
\* list, and both the copy and the source have handed out slots since
C31_Witness ==
    /\ Len(handles) >= 2
    /\ \E a \in DOMAIN handles, c \in DOMAIN handles :
         /\ a < c
         /\ handles[a].class = handles[c].class
         /\ handles[a].free_head_ = NoSlot
         /\ <<a, 0>> \in outstanding
         /\ <<c, 0>> \in outstanding
    /\ plast.op = "allocate"
    /\ plast.ok


\* C32: LeakyPoolAllocator keeps no reference to a chunk: no call, and not the
\* teardown, releases a chunk obtained at construction or by growth; each
\* growth adds one chunk, and after teardown the chunks never released are all
\* the chunks the object created.
C32_LeakyNeverReleases ==
    [][/\ \A c \in DOMAIN heap' : heap'[c] = 0
       /\ Len(heap') = Len(heap) + (IF plast'.grew THEN 1 ELSE 0)
       /\ DOMAIN pool \ {"none"} \subseteq {"freeList", "next", "class"}
       /\ pool' # NoObject => ChunksCreated(pool') = DOMAIN heap'
       /\ plast'.op = "destroy" =>
            /\ pool' = NoObject
            /\ Cardinality({c \in DOMAIN heap' : heap'[c] = 0})
                 = Cardinality(ChunksCreated(pool))]_vars

\* C32 witness: an object that had grown to three chunks was torn down with
\* slots handed out and slots given back
C32_Witness ==
    /\ pool = NoObject
    /\ plast.op = "destroy"
    /\ Len(heap) = 3
    /\ \A c \in DOMAIN heap : heap[c] = 0
    /\ outstanding # {}
    /\ freed # <<>>


\* the free list of a fixed pool
FixedFreeList(p) == Walk(p, p.free_head_, p.PoolSize + 1)

\* C34: while every deallocate was given null or a slot then handed out:
\* SimplePoolAllocator's allocated_count() is the number of slots that are not
\* on the free list and the number of slots handed out and lies in
\* 0 .. PoolSize, and available_count() is the length of the free list; the
\* growable PoolAllocator's getActiveObjects() is the number of slots handed
\* out and totalDeallocated is at most totalAllocated.
C34_StatisticsExact ==
    validUse =>
      /\ "allocated_count_" \in DOMAIN pool =>
           LET free == FixedFreeList(pool)
           IN /\ allocated_count(pool) = Cardinality(Blocks(pool) \ Range(free))
              /\ allocated_count(pool) = Cardinality(outstanding)
              /\ 0 <= allocated_count(pool)
              /\ allocated_count(pool) <= pool.PoolSize
              /\ available_count(pool) = Len(free)
              /\ Cardinality(Range(free)) = Len(free)
      /\ IsVector =>
           /\ getActiveObjects(pool) = Cardinality(outstanding)
           /\ pool.totalDeallocated <= pool.totalAllocated

\* C34 witness: a growable pool was given null and, twice, slots it had handed
\* out, and still has a slot handed out
C34_Witness ==
    /\ IsVector
    /\ validUse
    /\ plast.op = "deallocate"
    /\ ~plast.ok
    /\ plast.frees = 2
    /\ Cardinality(outstanding) = 1
    /\ getActiveObjects(pool) = 1

\* a fixed pool was exhausted, got one slot back and handed it out again
C34_WitnessFixed ==
    /\ "allocated_count_" \in DOMAIN pool
    /\ validUse
    /\ plast.frees = 1
    /\ plast.op = "allocate"
    /\ plast.ok
    /\ allocated_count(pool) = pool.PoolSize
    /\ pool.PoolSize = 2


\* C35: in the fixed pools whose slots are sizeof(T) apart, built with at
\* least one slot, every link stored by the construction and by deallocate
\* occupies bytes of its own slot only and lies inside pool_, for every
\* sizeof(T).
C35_LinkInsideOwnSlot ==
    (pool.layout = "slot" /\ pool.N >= 1 /\ pool.write # NoWrite)
      => /\ pool.write.at >= pool.write.slot
         /\ pool.write.at + pool.write.len <= pool.write.slot + pool.SlotSize
         /\ pool.write.at + pool.write.len <= PoolBytes(pool)

\* C36: for every block count N >= 0 the construction stores its links into
\* slots of the chunk only, the loop counter never passes N, the loop bound
\* N - 1 is the unbounded N - 1, and a finished construction has stored
\* exactly N links.
C36_LinksExactlyNSlots ==
    /\ pool.write # NoWrite =>
         /\ pool.write.slot >= 0
         /\ pool.write.slot + Stride(pool) <= PoolBytes(pool)
    /\ pool.i <= pool.N
    /\ pool.pc = "loop" => pool.links = pool.i
    /\ (pool.pc = "ready" /\ plast.op = "link") => pool.links = pool.N


\* C37: LinearAllocator::allocate<T>(count) returns the address at the offset
\* it finds, which is a multiple of alignof(T), and adds sizeof(T) * count to
\* the offset; it returns nullptr, with the offset unchanged, exactly when the
\* offset plus sizeof(T) * count exceeds size; reset() sets the offset to 0.
C37_LinearReturnsAlignedAddress ==
    [][/\ last'.op = "allocate" =>
            /\ last'.ok <=> arena.offset + last'.bytes <= arena.size
            /\ last'.ok => /\ last'.start = arena.offset
                           /\ last'.start % last'.alignment = 0
                           /\ arena'.offset = arena.offset + last'.bytes
            /\ ~last'.ok => arena'.offset = arena.offset
            /\ arena'.size = arena.size
       /\ last'.op = "reset" => arena'.offset = 0 /\ arena'.size = arena.size]_vars

====
